---- MODULE Spec2Model ----
(***************************************************************************)
(* Commission lookup kit: text normalisation (utils.normalize_text),       *)
(* commission parsing (utils.parse_commission_to_float) and the tiered     *)
(* free-text search with aggregation (TrendyolCommissionLookup).           *)
(*                                                                         *)
(* Text is a sequence of characters.  A character is a one-letter string;  *)
(* the non-ASCII characters are named:                                     *)
(*   "i_dotless" U+0131, "g_breve" U+011F, "u_uml" U+00FC,                  *)
(*   "s_ced" U+015F, "o_uml" U+00F6, "c_ced" U+00E7 and their capitals      *)
(*   "I_DOT" U+0130, "G_BREVE", "U_UML", "S_CED", "O_UML", "C_CED";         *)
(*   "dot_above" is the combining dot U+0307; "\t" is a tab.               *)
(***************************************************************************)
EXTENDS Integers, Sequences, FiniteSets, TLC

VARIABLES
    pc,         \* position of the running scenario
    cache,      \* lru_cache of normalize_text: key -> cached result
    recency,    \* keys of cache, least recently used first
    nt_arg,     \* last argument of normalize_text
    nt_ret,     \* what the last call returned
    nt_again,   \* normalize_text applied to nt_ret
    value,      \* argument of parse_commission_to_float
    numbers,    \* re.findall(r"[\d\.,]+", value_str)
    raw_number, \* numbers[0] after the separator handling
    parsed,     \* float(raw_number)
    result,     \* return value of parse_commission_to_float
    df,         \* TrendyolCommissionLookup.df (rows with the _norm columns)
    query,      \* argument of search_products
    results,    \* rows returned by search_products
    tier,       \* which return statement of search_products produced results
    best,       \* return value of get_best_match
    alts,       \* return value of get_alternative_matches
    table,      \* DataFrame read from a marketplace's CSV file
    mp_key,     \* marketplace whose columns_candidates apply
    flat4,      \* outcome of _normalize_to_flat4(table, candidates)
    loaded,     \* outcome of _load_csv_normalized(path, mp_key)
    api_op,     \* service query that ran last
    api_q,      \* its query text
    api_out,    \* what it returned
    fs,         \* the CSV files on disk: exists, st_mtime, content
    _mtimes,    \* MultiMarketplaceCommissionService._mtimes
    _data,      \* MultiMarketplaceCommissionService._data: key -> list object
    heap,       \* the list objects: their items and where they came from
    req,        \* the requests in flight: position and locals of each
    load_failed, \* marketplaces whose last load attempt raised (logged warning)
    df_columns, \* df.columns given to find_column_by_aliases
    aliases,    \* its list of aliases, in priority order
    found,      \* what find_column_by_aliases returned
    upd,        \* BaseUpdate.run: its arguments, environment and locals
    disk,       \* the target CSV, the temp CSV and the temp Excel file
    backup_dir  \* contents of the files copied into BACKUP_DIR, in order

vars == <<pc, cache, recency, nt_arg, nt_ret, nt_again, value, numbers, raw_number,
          parsed, result, df, query, results, tier, best, alts,
          table, mp_key, flat4, loaded, api_op, api_q, api_out,
          fs, _mtimes, _data, heap, req, load_failed,
          df_columns, aliases, found, upd, disk, backup_dir>>

normVars   == <<cache, recency, nt_arg, nt_ret, nt_again>>
parseVars  == <<value, numbers, raw_number, parsed, result>>
searchVars == <<df, query, results, tier, best, alts>>
loadVars   == <<table, mp_key, flat4, loaded>>
apiVars    == <<api_op, api_q, api_out>>
svcVars    == <<fs, _mtimes, _data, heap, req, load_failed>>
resolveVars == <<df_columns, aliases, found>>
updVars    == <<upd, disk, backup_dir>>

NULL == "NULL"

\* A float is a decimal num / 10^scale (exact: rounding is not modelled); None
\* is the record with ok = FALSE.
Float(n, k) == [ok |-> TRUE, num |-> n, scale |-> k]
NoFloat     == [ok |-> FALSE, num |-> 0, scale |-> 0]
NaN         == NoFloat

\* get_best_match returning None; get_alternative_matches returning pd.DataFrame()
NoBest == [ok |-> FALSE, Kategori |-> <<>>, Alt_Kategori |-> <<>>,
           Urun_Grubu |-> <<>>, Komisyon |-> NaN]
NoAlternatives == [error |-> "", groups |-> <<>>]

-----------------------------------------------------------------------------
(* Characters *)

UpperAscii == <<"A","B","C","D","E","F","G","H","I","J","K","L","M",
                "N","O","P","Q","R","S","T","U","V","W","X","Y","Z">>
LowerAscii == <<"a","b","c","d","e","f","g","h","i","j","k","l","m",
                "n","o","p","q","r","s","t","u","v","w","x","y","z">>
Digits     == {"0","1","2","3","4","5","6","7","8","9"}

Range(s) == {s[i] : i \in 1..Len(s)}

TurkishLower == {"i_dotless","g_breve","u_uml","s_ced","o_uml","c_ced"}
TurkishUpper == {"I_DOT","G_BREVE","U_UML","S_CED","O_UML","C_CED"}

\* str.isspace(): the characters str.strip() removes and \s matches
IsSpace(c) == c \in {" ", "\t"}

\* \w of a str pattern: alphanumerics and the underscore; a combining mark is not
IsWordChar(c) ==
    c \in Range(UpperAscii) \cup Range(LowerAscii) \cup Digits
          \cup TurkishLower \cup TurkishUpper \cup {"_"}

\* str.lower() of one character; U+0130 lowers to "i" followed by U+0307
LowerChar(c) ==
    IF c \in Range(UpperAscii)
    THEN <<LowerAscii[CHOOSE i \in 1..26 : UpperAscii[i] = c]>>
    ELSE CASE c = "I_DOT"   -> <<"i", "dot_above">>
           [] c = "G_BREVE" -> <<"g_breve">>
           [] c = "U_UML"   -> <<"u_uml">>
           [] c = "S_CED"   -> <<"s_ced">>
           [] c = "O_UML"   -> <<"o_uml">>
           [] c = "C_CED"   -> <<"c_ced">>
           [] OTHER         -> <<c>>

RECURSIVE Lower(_)
Lower(s) == IF s = <<>> THEN <<>> ELSE LowerChar(Head(s)) \o Lower(Tail(s))

\* str.strip()
Strip(s) ==
    LET keep == {i \in 1..Len(s) : ~IsSpace(s[i])}
    IN  IF keep = {} THEN <<>>
        ELSE LET lo == CHOOSE i \in keep : \A j \in keep : i <= j
                 hi == CHOOSE i \in keep : \A j \in keep : i >= j
             IN  SubSeq(s, lo, hi)

\* str.maketrans("ığüşöçİĞÜŞÖÇ", "igusocIGUSOC")
turkish_map(c) ==
    CASE c = "i_dotless" -> "i"
      [] c = "g_breve"   -> "g"
      [] c = "u_uml"     -> "u"
      [] c = "s_ced"     -> "s"
      [] c = "o_uml"     -> "o"
      [] c = "c_ced"     -> "c"
      [] c = "I_DOT"     -> "I"
      [] c = "G_BREVE"   -> "G"
      [] c = "U_UML"     -> "U"
      [] c = "S_CED"     -> "S"
      [] c = "O_UML"     -> "O"
      [] c = "C_CED"     -> "C"
      [] OTHER           -> c

RECURSIVE Translate(_)
Translate(s) ==
    IF s = <<>> THEN <<>> ELSE <<turkish_map(Head(s))>> \o Translate(Tail(s))

\* re.sub(r"\s+", " ", text)
RECURSIVE CollapseSpaces(_)
CollapseSpaces(s) ==
    IF s = <<>> THEN <<>>
    ELSE IF IsSpace(Head(s))
         THEN IF Len(s) > 1 /\ IsSpace(s[2])
              THEN CollapseSpaces(Tail(s))
              ELSE <<" ">> \o CollapseSpaces(Tail(s))
         ELSE <<Head(s)>> \o CollapseSpaces(Tail(s))

-----------------------------------------------------------------------------
(* Python values reaching normalize_text: type, str() form and, for the    *)
(* numeric types, the number they compare equal to (num; 0 otherwise).     *)

Str(s) == [type |-> "str", str |-> s, num |-> 0]

PyNone   == [type |-> "NoneType", str |-> <<"N","o","n","e">>, num |-> 0]
PyNaN    == [type |-> "nan",   str |-> <<"n","a","n">>, num |-> 0]
PyTrue   == [type |-> "bool",  str |-> <<"T","r","u","e">>, num |-> 1]
PyFalse  == [type |-> "bool",  str |-> <<"F","a","l","s","e">>, num |-> 0]
PyInt1   == [type |-> "int",   str |-> <<"1">>, num |-> 1]
PyInt0   == [type |-> "int",   str |-> <<"0">>, num |-> 0]
PyFloat1 == [type |-> "float", str |-> <<"1",".","0">>, num |-> 1]
PyFloat0 == [type |-> "float", str |-> <<"0",".","0">>, num |-> 0]

NullLike == {<<"n","a","n">>, <<"n","o","n","e">>, <<>>}

\* the body of normalize_text, without its cache
NormalizeBody(v) ==
    IF v.type \in {"NoneType", "nan"} THEN <<>>
    ELSE LET text == Lower(Strip(v.str))
         IN  IF text \in NullLike THEN <<>>
             ELSE CollapseSpaces(Translate(text))

\* functools._make_key for one positional argument: an exact str or int is its
\* own key; anything else is wrapped in a tuple, which compares by ==, so that
\* (1.0,) and (True,) are one key
CacheKey(v) ==
    CASE v.type = "str"      -> [kind |-> "str",   text |-> v.str, num |-> 0]
      [] v.type = "int"      -> [kind |-> "int",   text |-> <<>>,  num |-> v.num]
      [] v.type = "NoneType" -> [kind |-> "(None,)", text |-> <<>>, num |-> 0]
      [] v.type = "nan"      -> [kind |-> "(nan,)",  text |-> <<>>, num |-> 0]
      [] OTHER               -> [kind |-> "(num,)",  text |-> <<>>, num |-> v.num]

\* @lru_cache(maxsize=1000)
NormCacheSize == 1000

Without(seq, k) == SelectSeq(seq, LAMBDA x : x # k)

\* one call of the cached normalize_text: <<returned text, cache, recency>>
CachedNormalize(v, c, r) ==
    LET key == CacheKey(v)
    IN  IF key \in DOMAIN c
        THEN <<c[key], c, Append(Without(r, key), key)>>
        ELSE LET out  == NormalizeBody(v)
                 full == Len(r) >= NormCacheSize
                 keep == IF full THEN Tail(r) ELSE r
                 c2   == [k \in (Range(keep) \cup {key}) |->
                              IF k = key THEN out ELSE c[k]]
             IN  <<out, c2, Append(keep, key)>>

\* normalize_text on str arguments, as the search code calls it: an exact str
\* is its own cache key, so a cached result is the body's result
normalize_text(s) == NormalizeBody(Str(s))

-----------------------------------------------------------------------------
(* Scenario 1: calls of normalize_text *)

NormMaxLen == 2
MaxCalls   == 2

NormAlphabet == {"a", "A", " ", "o_uml", "I_DOT"}

RECURSIVE StringsUpTo(_, _)
StringsUpTo(alphabet, n) ==
    IF n = 0 THEN {<<>>}
    ELSE LET shorter == StringsUpTo(alphabet, n - 1)
         IN  shorter \cup {Append(s, c) : s \in shorter, c \in alphabet}

NormExamples ==
    { <<"n","o_uml","n","e">>,
      <<"N","O_UML","N","E">>,
      <<"n","o","n","e">>,
      <<"N","a","N">>,
      <<" ","a","\t"," ","b"," ">>,
      <<"I_DOT","s","t","a","n","b","u","l"," ","S_CED","o_uml","y","l","e",
        " ","C_CED","e","s_ced","i","t">>,
      <<"i_dotless","g_breve","u_uml","s_ced","o_uml","c_ced",
        "I_DOT","G_BREVE","U_UML","S_CED","O_UML","C_CED">> }

NormInputs ==
    {Str(s) : s \in StringsUpTo(NormAlphabet, NormMaxLen) \cup NormExamples}
      \cup {PyNone, PyNaN, PyTrue, PyFalse, PyInt1, PyInt0, PyFloat1, PyFloat0}

EmptyCache == [k \in {} |-> <<>>]

NormIdle ==
    /\ cache = EmptyCache /\ recency = <<>>
    /\ nt_arg = PyNone /\ nt_ret = <<>> /\ nt_again = <<>>
ParseIdle ==
    /\ value = PyNone /\ numbers = <<>> /\ raw_number = <<>>
    /\ parsed = NoFloat /\ result = NoFloat
SearchIdle ==
    /\ df = <<>> /\ query = <<>> /\ results = <<>> /\ tier = 0
    /\ best = NoBest /\ alts = NoAlternatives
LoadIdle ==
    /\ table = [columns |-> {}, rows |-> <<>>] /\ mp_key = ""
    /\ flat4 = [error |-> "", rows |-> <<>>]
    /\ loaded = [error |-> "", rows |-> <<>>]
ApiIdle ==
    /\ api_op = "" /\ api_q = <<>> /\ api_out = <<>>
ServiceIdle ==
    /\ fs = <<>> /\ _mtimes = <<>> /\ _data = <<>> /\ heap = <<>>
    /\ req = <<>> /\ load_failed = {}
NoColumn == [ok |-> FALSE, col |-> <<>>]
ResolveIdle ==
    /\ df_columns = <<>> /\ aliases = <<>> /\ found = NoColumn
UpdateIdle ==
    /\ upd = <<>> /\ disk = <<>> /\ backup_dir = <<>>

NormInit ==
    /\ pc = "norm_idle" /\ NormIdle /\ ParseIdle /\ SearchIdle
    /\ LoadIdle /\ ApiIdle /\ ServiceIdle /\ ResolveIdle /\ UpdateIdle

\* normalize_text(v)
Normalize(v) ==
    /\ pc \in {"norm_idle", "normalized", "renormalized"}
    /\ Len(recency) < MaxCalls
    /\ LET call == CachedNormalize(v, cache, recency)
       IN  /\ nt_arg' = v
           /\ nt_ret' = call[1]
           /\ cache' = call[2]
           /\ recency' = call[3]
    /\ pc' = "normalized"
    /\ UNCHANGED <<nt_again, parseVars, searchVars, loadVars, apiVars, svcVars, resolveVars, updVars>>

\* normalize_text(normalize_text(v)): the result fed back
Renormalize ==
    /\ pc = "normalized"
    /\ LET call == CachedNormalize(Str(nt_ret), cache, recency)
       IN  /\ nt_again' = call[1]
           /\ cache' = call[2]
           /\ recency' = call[3]
    /\ pc' = "renormalized"
    /\ UNCHANGED <<nt_arg, nt_ret, parseVars, searchVars, loadVars, apiVars, svcVars, resolveVars, updVars>>

NormNext == (\E v \in NormInputs : Normalize(v)) \/ Renormalize

SpecNorm == NormInit /\ [][NormNext]_vars

\* C6: normalize_text is idempotent: normalising a result again changes nothing,
\* also when the first result is one of the null-like literals.
C6_Idempotent == pc = "renormalized" => nt_again = nt_ret

IsAsciiLower(c) == c \in Range(LowerAscii)

TurkishInputChars ==
    Range(UpperAscii) \cup Range(LowerAscii) \cup {" ", "\t"}
        \cup TurkishLower \cup TurkishUpper

\* only lowercase ASCII letters and single spaces, none leading or trailing
CleanAscii(s) ==
    /\ \A i \in 1..Len(s) : IsAsciiLower(s[i]) \/ s[i] = " "
    /\ s # <<>> => s[1] # " " /\ s[Len(s)] # " "
    /\ \A i \in 1..(Len(s) - 1) : ~(s[i] = " " /\ s[i + 1] = " ")

\* C7: for a string of ASCII letters, whitespace and the 12 Turkish letters,
\* normalize_text returns only lowercase ASCII letters and single spaces.
C7_FoldsToAscii ==
    (pc = "normalized" /\ nt_arg.type = "str"
        /\ Range(nt_arg.str) \subseteq TurkishInputChars)
    => CleanAscii(nt_ret)

\* C8: the cache is transparent: whatever calls came before, normalize_text(v)
\* returns what it returns with an empty cache.
C8_CacheTransparent == pc = "normalized" => nt_ret = NormalizeBody(nt_arg)

-----------------------------------------------------------------------------
(* parse_commission_to_float *)

RECURSIVE Pow10(_)
Pow10(k) == IF k = 0 THEN 1 ELSE 10 * Pow10(k - 1)

\* a == b, a <= b for floats, compared at the larger of the two scales
AtScale(a, k) == a.num * Pow10(k - a.scale)
MaxScale(a, b) == IF a.scale >= b.scale THEN a.scale ELSE b.scale
FloatEq(a, b) == AtScale(a, MaxScale(a, b)) = AtScale(b, MaxScale(a, b))
FloatLe(a, b) == AtScale(a, MaxScale(a, b)) <= AtScale(b, MaxScale(a, b))

DigitValue(c) ==
    CASE c = "0" -> 0 [] c = "1" -> 1 [] c = "2" -> 2 [] c = "3" -> 3
      [] c = "4" -> 4 [] c = "5" -> 5 [] c = "6" -> 6 [] c = "7" -> 7
      [] c = "8" -> 8 [] c = "9" -> 9

\* [\d\.,]
IsRunChar(c) == c \in Digits \cup {".", ","}

\* re.findall(r"[\d\.,]+", s): the maximal runs, left to right
RECURSIVE FindAll(_, _)
FindAll(s, open) ==
    IF s = <<>> THEN (IF open = <<>> THEN <<>> ELSE <<open>>)
    ELSE IF IsRunChar(Head(s))
         THEN FindAll(Tail(s), Append(open, Head(s)))
         ELSE (IF open = <<>> THEN <<>> ELSE <<open>>) \o FindAll(Tail(s), <<>>)

RECURSIVE Replace(_, _, _)
\* str.replace(old, new) for a one-character old; new is a text
Replace(s, old, new) ==
    IF s = <<>> THEN <<>>
    ELSE (IF Head(s) = old THEN new ELSE <<Head(s)>>) \o Replace(Tail(s), old, new)

\* the separators read the other way round: ',' groups thousands, '.' is decimal
HandleSeparators_DotDecimal(raw) ==
    IF "," \in Range(raw) /\ "." \in Range(raw)
    THEN Replace(raw, ",", <<>>)
    ELSE IF "," \in Range(raw)
         THEN Replace(raw, ",", <<".">>)
         ELSE raw

\* "Virgül ve nokta işleme"
HandleSeparators(raw) ==
    IF "," \in Range(raw) /\ "." \in Range(raw)
    THEN Replace(Replace(raw, ".", <<>>), ",", <<".">>)
    ELSE IF "," \in Range(raw)
         THEN Replace(raw, ",", <<".">>)
         ELSE raw

RECURSIVE DigitsValue(_)
DigitsValue(ds) ==
    IF ds = <<>> THEN 0 ELSE 10 * DigitsValue(SubSeq(ds, 1, Len(ds) - 1))
                             + DigitValue(ds[Len(ds)])

\* a float() that reads a text without any digit as 0 instead of raising
ToFloat_EmptyIsZero(raw) ==
    LET dots   == {i \in 1..Len(raw) : raw[i] = "."}
        digits == SelectSeq(raw, LAMBDA c : c # ".")
    IN  IF Cardinality(dots) > 1 THEN NoFloat
        ELSE IF dots = {} THEN Float(DigitsValue(digits), 0)
        ELSE Float(DigitsValue(digits), Len(raw) - (CHOOSE i \in dots : TRUE))

\* float(raw_number) for a text of digits and dots; NoFloat is the ValueError
ToFloat(raw) ==
    LET dots   == {i \in 1..Len(raw) : raw[i] = "."}
        digits == SelectSeq(raw, LAMBDA c : c # ".")
    IN  IF Cardinality(dots) > 1 \/ digits = <<>> THEN NoFloat
        ELSE IF dots = {} THEN Float(DigitsValue(digits), 0)
        ELSE Float(DigitsValue(digits), Len(raw) - (CHOOSE i \in dots : TRUE))

\* the test written 0 < result < 1: exactly 1 is left unscaled
ScaleCorrection_Below1(f) ==
    IF f.num > 0 /\ f.num < Pow10(f.scale) THEN Float(f.num * 100, f.scale) ELSE f

\* if 0 < result <= 1: result = result * 100
ScaleCorrection(f) ==
    IF f.num > 0 /\ f.num <= Pow10(f.scale) THEN Float(f.num * 100, f.scale) ELSE f

\* value_str = str(value).strip()
ValueStr(v) == Strip(v.str)

\* the early returns of lines 78-89
NoNumber(v) ==
    \/ v.type \in {"NoneType", "nan"}
    \/ ValueStr(v) = <<>>
    \/ Lower(ValueStr(v)) \in NullLike
    \/ FindAll(ValueStr(v), <<>>) = <<>>

\* parse_commission_to_float(value) as a function of its argument
parse_commission_to_float(v) ==
    IF NoNumber(v) THEN NoFloat
    ELSE LET f == ToFloat(HandleSeparators(FindAll(ValueStr(v), <<>>)[1]))
         IN  IF f.ok THEN ScaleCorrection(f) ELSE NoFloat

(* Scenario 2: one call of parse_commission_to_float *)

ParseMaxLen == 4

ParseAlphabet == {"0", "1", "5", ".", ",", "%"}

ParseExamples ==
    { <<"1","8","%">>, <<"%","1","8">>, <<"0",",","1","8">>,
      <<"1",".","2","3","4",",","5","6">>, <<"1",",","2","3","4",".","5","6">>,
      <<"a","b","c">>, <<"n","a","n">>, <<"N","o","n","e">>,
      <<"1",".","2",".","3">>, <<" ","%"," ","1","8",",","5"," ">>,
      <<"0",",","0","0","0","7">> }

ParseInputs ==
    {Str(s) : s \in StringsUpTo(ParseAlphabet, ParseMaxLen) \cup ParseExamples}
      \cup {PyNone, PyNaN, PyTrue, PyInt1, PyInt0, PyFloat1, PyFloat0}

ParseInit ==
    /\ pc = "parse_idle" /\ NormIdle /\ SearchIdle
    /\ LoadIdle /\ ApiIdle /\ ServiceIdle /\ ResolveIdle /\ UpdateIdle
    /\ value \in ParseInputs
    /\ numbers = <<>> /\ raw_number = <<>>
    /\ parsed = NoFloat /\ result = NoFloat

\* parse_commission_to_float(value)
ParseCommission ==
    /\ pc = "parse_idle"
    /\ IF NoNumber(value)
       THEN /\ numbers' = (IF value.type \in {"NoneType", "nan"}
                              \/ Lower(ValueStr(value)) \in NullLike
                           THEN <<>> ELSE FindAll(ValueStr(value), <<>>))
            /\ UNCHANGED <<raw_number, parsed, result>>
       ELSE /\ numbers' = FindAll(ValueStr(value), <<>>)
            /\ raw_number' = HandleSeparators(numbers'[1])
            /\ parsed' = ToFloat(raw_number')
            /\ result' = IF parsed'.ok THEN ScaleCorrection(parsed') ELSE NoFloat
    /\ pc' = "parse_done"
    /\ UNCHANGED <<value, normVars, searchVars, loadVars, apiVars, svcVars, resolveVars, updVars>>

ParseNext == ParseCommission

SpecParse == ParseInit /\ [][ParseNext]_vars

\* the first maximal run of digits, '.' and ',' of a text, as a property
IsFirstRun(run, s) ==
    /\ run # <<>>
    /\ \A i \in 1..Len(run) : IsRunChar(run[i])
    /\ \E p \in 1..Len(s) :
          /\ p + Len(run) - 1 <= Len(s)
          /\ SubSeq(s, p, p + Len(run) - 1) = run
          /\ \A i \in 1..(p - 1) : ~IsRunChar(s[i])
          /\ p + Len(run) <= Len(s) => ~IsRunChar(s[p + Len(run)])

ParsedAs(text, f) == value = Str(text) => (result.ok /\ FloatEq(result, f))

\* C9: the first run of digits, '.' and ',' is taken; with both ',' and '.' in
\* it every '.' is dropped and ',' is the decimal point; with only ',' that is
\* the decimal point; so "18%" and "%18" give 18, "0,18" gives 18 and
\* "1.234,56" gives 1234.56, unclamped.
C9_Separators ==
    pc = "parse_done" =>
      /\ numbers # <<>> =>
           LET run == numbers[1]
               commas == {i \in 1..Len(run) : run[i] = ","}
               dots   == {i \in 1..Len(run) : run[i] = "."}
           IN  /\ IsFirstRun(run, ValueStr(value))
               /\ "," \notin Range(raw_number)
               /\ (commas # {} /\ dots # {}) =>
                     /\ Len(raw_number) = Len(run) - Cardinality(dots)
                     /\ Cardinality({i \in 1..Len(raw_number) : raw_number[i] = "."})
                          = Cardinality(commas)
                     /\ SelectSeq(raw_number, LAMBDA c : c # ".")
                          = SelectSeq(run, LAMBDA c : c \in Digits)
               /\ (commas # {} /\ dots = {}) =>
                     /\ Len(raw_number) = Len(run)
                     /\ \A i \in 1..Len(run) :
                           raw_number[i] = (IF i \in commas THEN "." ELSE run[i])
               /\ commas = {} => raw_number = run
               /\ (commas # {} /\ dots # {} /\ Cardinality(commas) = 1
                     /\ Range(run) \cap Digits # {}) =>
                     /\ result.ok
                     /\ LET c == CHOOSE i \in commas : TRUE
                        IN  FloatEq(result, ScaleCorrection(
                              Float(DigitsValue(SelectSeq(run, LAMBDA x : x \in Digits)),
                                    Cardinality({i \in (c + 1)..Len(run) : run[i] \in Digits}))))
      /\ ParsedAs(<<"1","8","%">>, Float(18, 0))
      /\ ParsedAs(<<"%","1","8">>, Float(18, 0))
      /\ ParsedAs(<<"0",",","1","8">>, Float(18, 0))
      /\ ParsedAs(<<"1",".","2","3","4",",","5","6">>, Float(123456, 2))

C9_Witness ==
    /\ pc = "parse_done"
    /\ value = Str(<<"1",".","2","3","4",",","5","6">>)
    /\ raw_number = <<"1","2","3","4",".","5","6">>
    /\ result = Float(123456, 2)

\* C10: a parsed value v with 0 < v <= 1 is returned as 100 * v, once; v = 0
\* and every v > 1 are returned as they are.
C10_ScaleCorrection ==
    (pc = "parse_done" /\ numbers # <<>>) =>
        /\ result.ok = parsed.ok
        /\ parsed.ok =>
             IF parsed.num > 0 /\ FloatLe(parsed, Float(1, 0))
             THEN FloatEq(result, Float(100 * parsed.num, parsed.scale))
             ELSE FloatEq(result, parsed)

\* a fraction so small that one scaling leaves it below 1
C10_Witness ==
    /\ pc = "parse_done" /\ parsed.ok /\ result.ok
    /\ parsed.num > 0
    /\ FloatLe(result, Float(1, 0))
    /\ ~FloatEq(result, parsed)

\* a decimal literal: digits with at most one '.', and at least one digit
ValidNumber(raw) ==
    /\ Range(raw) \subseteq Digits \cup {"."}
    /\ Range(raw) \cap Digits # {}
    /\ Cardinality({i \in 1..Len(raw) : raw[i] = "."}) <= 1

\* C11: parse_commission_to_float always returns: None for None, NaN, the
\* empty text, the literals nan/none, a text without a run of digits, '.' and
\* ',', and a text whose first run is no valid number once its separators are
\* handled; a number in every other case.
C11_NoneOrNumber ==
    pc = "parse_done" =>
      /\ numbers = <<>> <=>
            \/ value.type \in {"NoneType", "nan"}
            \/ Lower(Strip(value.str)) \in NullLike
            \/ \A i \in 1..Len(value.str) : ~IsRunChar(value.str[i])
      /\ result.ok <=> (numbers # <<>> /\ ValidNumber(raw_number))
      /\ result.ok => result.num >= 0 /\ result.scale >= 0

\* "1.2.3" has a run, which is not a number: the ValueError is caught
C11_Witness ==
    /\ pc = "parse_done"
    /\ value = Str(<<"1",".","2",".","3">>)
    /\ numbers = <<value.str>>
    /\ ~result.ok

-----------------------------------------------------------------------------
(* TrendyolCommissionLookup: regular expressions of create_search_pattern *)

\* whether \b matches between s[k] and s[k + 1] (k = 0 and k = Len(s) are the ends)
Boundary(s, k) ==
    (k >= 1 /\ IsWordChar(s[k])) # (k < Len(s) /\ IsWordChar(s[k + 1]))

\* create_search_pattern: the escaped text, between two \b when exact_word.
\* It normalises its argument once more.
create_search_pattern(q, exact_word) ==
    [lit |-> normalize_text(q), word |-> exact_word]

\* re.match in place of re.search: the pattern must match at the start
RegexSearch_Anchored(p, s) ==
    /\ Len(p.lit) <= Len(s)
    /\ SubSeq(s, 1, Len(p.lit)) = p.lit
    /\ p.word => (Boundary(s, 0) /\ Boundary(s, Len(p.lit)))

\* Series.str.contains(pattern, regex=True) on one cell: re.search
RegexSearch(p, s) ==
    \E i \in 1..(Len(s) - Len(p.lit) + 1) :
        /\ SubSeq(s, i, i + Len(p.lit) - 1) = p.lit
        /\ p.word => (Boundary(s, i - 1) /\ Boundary(s, i + Len(p.lit) - 1))

-----------------------------------------------------------------------------
(* difflib.SequenceMatcher and get_close_matches *)

\* length of the common prefix of a[i..ahi] and b[j..bhi]
RECURSIVE CommonPrefix(_, _, _, _, _, _)
CommonPrefix(a, i, ahi, b, j, bhi) ==
    IF i > ahi \/ j > bhi \/ a[i] # b[j] THEN 0
    ELSE 1 + CommonPrefix(a, i + 1, ahi, b, j + 1, bhi)

\* SequenceMatcher.find_longest_match: the longest block, of those the one
\* starting earliest in a, of those the one starting earliest in b
FindLongestMatch(a, alo, ahi, b, blo, bhi) ==
    LET blocks == {m \in {[i |-> i, j |-> j, k |-> CommonPrefix(a, i, ahi, b, j, bhi)] :
                              i \in alo..ahi, j \in blo..bhi} : m.k > 0}
        Better(m, n) == \/ m.k > n.k
                        \/ m.k = n.k /\ m.i < n.i
                        \/ m.k = n.k /\ m.i = n.i /\ m.j <= n.j
    IN  IF blocks = {} THEN [i |-> alo, j |-> blo, k |-> 0]
        ELSE CHOOSE m \in blocks : \A n \in blocks : Better(m, n)

\* sum of the sizes of get_matching_blocks()
RECURSIVE MatchCount(_, _, _, _, _, _)
MatchCount(a, alo, ahi, b, blo, bhi) ==
    IF alo > ahi \/ blo > bhi THEN 0
    ELSE LET m == FindLongestMatch(a, alo, ahi, b, blo, bhi)
         IN  IF m.k = 0 THEN 0
             ELSE m.k + MatchCount(a, alo, m.i - 1, b, blo, m.j - 1)
                      + MatchCount(a, m.i + m.k, ahi, b, m.j + m.k, bhi)

\* SequenceMatcher.ratio() = 2.0 * matches / (len(a) + len(b)), as the pair
\* <<numerator, denominator>>; 1.0 for two empty texts
Ratio(a, b) ==
    IF Len(a) + Len(b) = 0 THEN <<1, 1>>
    ELSE <<2 * MatchCount(a, 1, Len(a), b, 1, Len(b)), Len(a) + Len(b)>>

\* MIN_SIMILARITY_THRESHOLD = 0.6, in hundredths
MIN_SIMILARITY_THRESHOLD == 60
MAX_FUZZY_RESULTS == 10

\* ord(c)
Ord(c) ==
    IF c \in Range(UpperAscii) THEN 64 + (CHOOSE i \in 1..26 : UpperAscii[i] = c)
    ELSE IF c \in Range(LowerAscii) THEN 96 + (CHOOSE i \in 1..26 : LowerAscii[i] = c)
    ELSE IF c \in Digits THEN 48 + DigitValue(c)
    ELSE CASE c = "\t" -> 9   [] c = " " -> 32  [] c = "%" -> 37
           [] c = "," -> 44   [] c = "." -> 46  [] c = "_" -> 95
           [] c = "C_CED" -> 199     [] c = "O_UML" -> 214  [] c = "U_UML" -> 220
           [] c = "c_ced" -> 231     [] c = "o_uml" -> 246  [] c = "u_uml" -> 252
           [] c = "G_BREVE" -> 286   [] c = "g_breve" -> 287
           [] c = "I_DOT" -> 304     [] c = "i_dotless" -> 305
           [] c = "S_CED" -> 350     [] c = "s_ced" -> 351
           [] c = "dot_above" -> 775 [] c = "arrow" -> 8594

\* a < b for str
RECURSIVE StrLess(_, _)
StrLess(a, b) ==
    IF b = <<>> THEN FALSE
    ELSE IF a = <<>> THEN TRUE
    ELSE IF Head(a) # Head(b) THEN Ord(Head(a)) < Ord(Head(b))
    ELSE StrLess(Tail(a), Tail(b))

\* get_close_matches(word, possibilities, n, cutoff): the n best of those
\* whose ratio reaches the cutoff, as heapq.nlargest orders (score, x)
get_close_matches(word, possibilities, n, cutoff) ==
    LET close == {x \in possibilities :
                     100 * Ratio(x, word)[1] >= cutoff * Ratio(x, word)[2]}
        Before(x, y) ==
            LET rx == Ratio(x, word)
                ry == Ratio(y, word)
            IN  \/ rx[1] * ry[2] > ry[1] * rx[2]
                \/ rx[1] * ry[2] = ry[1] * rx[2] /\ StrLess(y, x)
    IN  IF Cardinality(close) <= n THEN close
        ELSE {x \in close : Cardinality({y \in close : Before(y, x)}) < n}

-----------------------------------------------------------------------------
(* TrendyolCommissionLookup *)

\* load_data: the text columns as str, plus their normalised copies
LoadRow(r) ==
    [Kategori          |-> r.Kategori.str,
     Alt_Kategori      |-> r.Alt_Kategori.str,
     Urun_Grubu        |-> r.Urun_Grubu.str,
     Komisyon          |-> r.Komisyon,
     kategori_norm     |-> normalize_text(r.Kategori.str),
     alt_kategori_norm |-> normalize_text(r.Alt_Kategori.str),
     urun_grubu_norm   |-> normalize_text(r.Urun_Grubu.str)]

RECURSIVE load_data(_)
load_data(csv) ==
    IF csv = <<>> THEN <<>> ELSE <<LoadRow(Head(csv))>> \o load_data(Tail(csv))

\* get_unique_values_from_column(df, "Ürün Grubu") with min_length = 2
get_unique_values_from_column(d) ==
    {r.Urun_Grubu : r \in
        {x \in Range(d) :
            /\ x.Urun_Grubu # <<>>
            /\ Len(Strip(x.Urun_Grubu)) >= 2
            /\ Lower(Strip(x.Urun_Grubu)) \notin
                   (NullLike \cup {<<"n","u","l","l">>})}}

\* tier 3 looking at the category column only
search_products_CategoryOnly(d, q) ==
    LET query_norm    == normalize_text(q)
        exact_word    == create_search_pattern(query_norm, TRUE)
        partial       == create_search_pattern(query_norm, FALSE)
        mask_exact(r)    == RegexSearch(exact_word, r.urun_grubu_norm)
        mask_partial(r)  == RegexSearch(partial, r.urun_grubu_norm)
        mask_category(r) == RegexSearch(partial, r.kategori_norm)
        fuzzy_matches == get_close_matches(q, get_unique_values_from_column(d),
                                           MAX_FUZZY_RESULTS, MIN_SIMILARITY_THRESHOLD)
        mask_fuzzy(r)    == r.Urun_Grubu \in fuzzy_matches
        broad_mask(r)    == \/ RegexSearch(partial, r.kategori_norm)
                            \/ RegexSearch(partial, r.alt_kategori_norm)
                            \/ RegexSearch(partial, r.urun_grubu_norm)
    IN  IF query_norm = <<>> THEN <<<<>>, 0>>
        ELSE IF SelectSeq(d, mask_exact) # <<>> THEN <<SelectSeq(d, mask_exact), 1>>
        ELSE IF SelectSeq(d, mask_partial) # <<>> THEN <<SelectSeq(d, mask_partial), 2>>
        ELSE IF SelectSeq(d, mask_category) # <<>> THEN <<SelectSeq(d, mask_category), 3>>
        ELSE IF fuzzy_matches # {} THEN <<SelectSeq(d, mask_fuzzy), 4>>
        ELSE IF SelectSeq(d, broad_mask) # <<>> THEN <<SelectSeq(d, broad_mask), 5>>
        ELSE <<<<>>, 6>>

\* df[mask] is SelectSeq(df, mask).
\* search_products(query): <<rows returned, number of the return statement>>;
\* 0 is the early return for an empty query, 6 the final empty return
search_products(d, q) ==
    LET query_norm    == normalize_text(q)
        exact_word    == create_search_pattern(query_norm, TRUE)
        partial       == create_search_pattern(query_norm, FALSE)
        mask_exact(r)    == RegexSearch(exact_word, r.urun_grubu_norm)
        mask_partial(r)  == RegexSearch(partial, r.urun_grubu_norm)
        mask_category(r) == \/ RegexSearch(partial, r.kategori_norm)
                            \/ RegexSearch(partial, r.alt_kategori_norm)
        fuzzy_matches == get_close_matches(q, get_unique_values_from_column(d),
                                           MAX_FUZZY_RESULTS, MIN_SIMILARITY_THRESHOLD)
        mask_fuzzy(r)    == r.Urun_Grubu \in fuzzy_matches
        broad_mask(r)    == \/ RegexSearch(partial, r.kategori_norm)
                            \/ RegexSearch(partial, r.alt_kategori_norm)
                            \/ RegexSearch(partial, r.urun_grubu_norm)
    IN  IF query_norm = <<>> THEN <<<<>>, 0>>
        ELSE IF SelectSeq(d, mask_exact) # <<>> THEN <<SelectSeq(d, mask_exact), 1>>
        ELSE IF SelectSeq(d, mask_partial) # <<>> THEN <<SelectSeq(d, mask_partial), 2>>
        ELSE IF SelectSeq(d, mask_category) # <<>> THEN <<SelectSeq(d, mask_category), 3>>
        ELSE IF fuzzy_matches # {} THEN <<SelectSeq(d, mask_fuzzy), 4>>
        ELSE IF SelectSeq(d, broad_mask) # <<>> THEN <<SelectSeq(d, broad_mask), 5>>
        ELSE <<<<>>, 6>>

\* the groupby key of a row
Key(r) == <<r.Kategori, r.Alt_Kategori, r.Urun_Grubu>>

\* the commission of the first row of the group
GroupMax_First(rows, key) ==
    LET first == CHOOSE i \in 1..Len(rows) :
                    Key(rows[i]) = key /\ \A j \in 1..(i - 1) : Key(rows[j]) # key
    IN  rows[first].Komisyon

\* groupby(...)["Komisyon_%_KDV_Dahil"].max() of one group: NaN cells are
\* skipped, a group of NaN cells only gives NaN
GroupMax(rows, key) ==
    LET cells == {rows[i].Komisyon : i \in {j \in 1..Len(rows) : Key(rows[j]) = key}}
        known == {c \in cells : c.ok}
    IN  IF known = {} THEN NaN
        ELSE CHOOSE c \in known : \A o \in known : FloatLe(o, c)

\* the grouped frame: one row per key
Grouped(rows) ==
    {[ok |-> TRUE, Kategori |-> k[1], Alt_Kategori |-> k[2], Urun_Grubu |-> k[3],
      Komisyon |-> GroupMax(rows, k)] : k \in {Key(rows[i]) : i \in 1..Len(rows)}}

\* sort_values(ascending=False) puts g no later than h for sure: NaN goes
\* last, and the order of equal commissions is left to the sort
SortsFirst(g, h) ==
    \/ ~h.Komisyon.ok
    \/ g.Komisyon.ok /\ FloatLe(h.Komisyon, g.Komisyon)

\* get_best_match(results): the rows iloc[0] can be
BestMatches(rows) ==
    IF rows = <<>> THEN {NoBest}
    ELSE {g \in Grouped(rows) : \A h \in Grouped(rows) : SortsFirst(g, h)}

\* get_alternative_matches(results, exclude_best); MAX_OTHER_RESULTS is defined
\* nowhere, so evaluating .head(MAX_OTHER_RESULTS) raises NameError
get_alternative_matches(rows, exclude_best) ==
    IF rows = <<>> \/ ~exclude_best.ok THEN NoAlternatives
    ELSE LET other(r) == ~(/\ r.Kategori = exclude_best.Kategori
                           /\ r.Alt_Kategori = exclude_best.Alt_Kategori
                           /\ r.Urun_Grubu = exclude_best.Urun_Grubu)
             alternatives == SelectSeq(rows, other)
         IN  IF alternatives = <<>> THEN NoAlternatives
             ELSE [error |-> "NameError", groups |-> <<>>]

(* Scenario 3: a lookup is constructed over a CSV file, then one query is    *)
(* searched, its best match taken and its alternatives listed, in the order  *)
(* search_and_display calls the three methods.  df is assigned by load_data  *)
(* only, so the lru_cache of search_products returns what its body returns.  *)

MaxRows == 3

Txt_Elektronik == <<"E","l","e","k","t","r","o","n","i","k">>
Txt_Telefon    == <<"T","e","l","e","f","o","n">>
Txt_Ev         == <<"E","v">>
Txt_Mutfak     == <<"M","u","t","f","a","k">>
Txt_AkilliTelefon == <<"A","k","i_dotless","l","l","i_dotless"," ","T","e","l","e","f","o","n">>
Txt_Kilif      == <<"K","i_dotless","l","i_dotless","f">>
Txt_Tava       == <<"T","a","v","a">>
Txt_NoneTava   == <<"N","o","n","e"," ","T","a","v","a">>

CsvRow(k, a, u, c) ==
    [Kategori |-> Str(k), Alt_Kategori |-> Str(a), Urun_Grubu |-> Str(u), Komisyon |-> c]

Row_AkilliTelefon15 == CsvRow(Txt_Elektronik, Txt_Telefon, Txt_AkilliTelefon, Float(15, 0))
Row_AkilliTelefon18 == CsvRow(Txt_Elektronik, Txt_Telefon, Txt_AkilliTelefon, Float(18, 0))
Row_Kilif10         == CsvRow(Txt_Elektronik, Txt_Telefon, Txt_Kilif, Float(10, 0))
Row_Tava8           == CsvRow(Txt_Ev, Txt_Mutfak, Txt_Tava, Float(8, 0))
Row_TavaNaN         == CsvRow(Txt_Ev, Txt_Mutfak, Txt_Tava, NaN)
Row_NoneTava8       == CsvRow(Txt_Ev, Txt_Mutfak, Txt_NoneTava, Float(8, 0))

CsvRows == {Row_AkilliTelefon15, Row_AkilliTelefon18, Row_Kilif10, Row_Tava8,
            Row_TavaNaN, Row_NoneTava8}

RECURSIVE SeqsUpTo(_, _)
SeqsUpTo(S, n) ==
    IF n = 0 THEN {<<>>}
    ELSE LET shorter == SeqsUpTo(S, n - 1)
         IN  shorter \cup {Append(q, x) : q \in shorter, x \in S}

CsvFiles == SeqsUpTo(CsvRows, MaxRows) \ {<<>>}

Q_telefon == <<"t","e","l","e","f","o","n">>
Q_tele    == <<"t","e","l","e">>
Q_mutfak  == <<"m","u","t","f","a","k">>
Q_Kilif   == <<"K","I","L","I","F">>
Q_Tavva   == <<"T","a","v","v","a">>
Q_xyz     == <<"x","y","z">>
Q_blank   == <<" ">>
Q_noene   == <<"n","o_uml","n","e">>
Q_NineTava == <<"N","i","n","e"," ","T","a","v","a">>

Queries == {Q_telefon, Q_tele, Q_mutfak, Q_Kilif, Q_Tavva, Q_xyz, Q_blank, Q_noene,
            Q_NineTava}

\* __init__: load_data()
SearchInit ==
    /\ pc = "search_idle" /\ NormIdle /\ ParseIdle
    /\ LoadIdle /\ ApiIdle /\ ServiceIdle /\ ResolveIdle /\ UpdateIdle
    /\ \E csv \in CsvFiles : df = load_data(csv)
    /\ query = <<>> /\ results = <<>> /\ tier = 0
    /\ best = NoBest /\ alts = NoAlternatives

\* results = self.search_products(query)
SearchProducts(q) ==
    /\ pc = "search_idle"
    /\ query' = q
    /\ results' = search_products(df, q)[1]
    /\ tier' = search_products(df, q)[2]
    /\ pc' = "searched"
    /\ UNCHANGED <<df, best, alts, normVars, parseVars, loadVars, apiVars, svcVars, resolveVars, updVars>>

\* best_match = self.get_best_match(results)
GetBestMatch ==
    /\ pc = "searched"
    /\ best' \in BestMatches(results)
    /\ pc' = "best"
    /\ UNCHANGED <<df, query, results, tier, alts, normVars, parseVars,
                 loadVars, apiVars, svcVars, resolveVars, updVars>>

\* alternatives = self.get_alternative_matches(results, best_match)
GetAlternativeMatches ==
    /\ pc = "best"
    /\ alts' = get_alternative_matches(results, best)
    /\ pc' = "alternatives"
    /\ UNCHANGED <<df, query, results, tier, best, normVars, parseVars,
                 loadVars, apiVars, svcVars, resolveVars, updVars>>

SearchNext ==
    \/ \E q \in Queries : SearchProducts(q)
    \/ GetBestMatch
    \/ GetAlternativeMatches

SpecSearch == SearchInit /\ [][SearchNext]_vars

\* the claims' match sets, over the normalised query qn
AsWholeWord(qn, s)  == RegexSearch([lit |-> qn, word |-> TRUE], s)
AsSubstring(qn, s)  == RegexSearch([lit |-> qn, word |-> FALSE], s)

ExactWordSelectSeq(d, qn) == SelectSeq(d, LAMBDA r : AsWholeWord(qn, r.urun_grubu_norm))
PartialSelectSeq(d, qn)   == SelectSeq(d, LAMBDA r : AsSubstring(qn, r.urun_grubu_norm))
CategorySelectSeq(d, qn)  == SelectSeq(d, LAMBDA r : \/ AsSubstring(qn, r.kategori_norm)
                                          \/ AsSubstring(qn, r.alt_kategori_norm))
FuzzySelectSeq(d, q)      ==
    SelectSeq(d, LAMBDA r : r.Urun_Grubu \in
            get_close_matches(q, get_unique_values_from_column(d),
                              MAX_FUZZY_RESULTS, MIN_SIMILARITY_THRESHOLD))
BroadSelectSeq(d, qn)     == SelectSeq(d, LAMBDA r : \/ AsSubstring(qn, r.kategori_norm)
                                          \/ AsSubstring(qn, r.alt_kategori_norm)
                                          \/ AsSubstring(qn, r.urun_grubu_norm))

\* C1: for a query that is not empty after normalisation, search_products
\* returns the match set of the first tier (exact word, substring, category,
\* fuzzy, broad) whose match set is not empty, in source order, and the empty
\* result when all five are empty.
C1_FirstNonEmptyTier ==
    (pc # "search_idle" /\ normalize_text(query) # <<>>) =>
        LET qn == normalize_text(query)
        IN  results =
               IF ExactWordSelectSeq(df, qn) # <<>> THEN ExactWordSelectSeq(df, qn)
               ELSE IF PartialSelectSeq(df, qn) # <<>> THEN PartialSelectSeq(df, qn)
               ELSE IF CategorySelectSeq(df, qn) # <<>> THEN CategorySelectSeq(df, qn)
               ELSE IF FuzzySelectSeq(df, query) # <<>> THEN FuzzySelectSeq(df, query)
               ELSE BroadSelectSeq(df, qn)

\* C2: when the normalised query is a whole word of some record's normalised
\* product group, every returned record has it as a whole word of its product
\* group.
C2_ExactWordOnly ==
    LET qn == normalize_text(query)
    IN  (/\ pc # "search_idle"
         /\ qn # <<>>
         /\ \E i \in 1..Len(df) : AsWholeWord(qn, df[i].urun_grubu_norm))
        => \A i \in 1..Len(results) : AsWholeWord(qn, results[i].urun_grubu_norm)

ExampleDf == load_data(<<Row_AkilliTelefon15, Row_Kilif10, Row_Tava8>>)

GroupOf(r) == [ok |-> TRUE, Kategori |-> r.Kategori.str,
               Alt_Kategori |-> r.Alt_Kategori.str,
               Urun_Grubu |-> r.Urun_Grubu.str, Komisyon |-> r.Komisyon]

\* C3 as stated: over the three example records "telefon" is answered by the
\* category tier with the first two records, the best match is Akilli Telefon
\* at 15 and the alternatives are exactly Kilif at 10.
C3_AsStated ==
    (df = ExampleDf /\ query = Q_telefon /\ pc = "alternatives") =>
        /\ tier = 3
        /\ results = SubSeq(df, 1, 2)
        /\ best = GroupOf(Row_AkilliTelefon15)
        /\ alts = [error |-> "", groups |-> <<GroupOf(Row_Kilif10)>>]

\* C3: over the three example records "telefon" is answered by the exact-word
\* tier with the first record alone (its product group has the word
\* "telefon"), the best match is Akilli Telefon at 15 and there are no
\* alternatives.
C3_EndToEnd ==
    (df = ExampleDf /\ query = Q_telefon) =>
        /\ pc # "search_idle" => (tier = 1 /\ results = <<df[1]>>)
        /\ pc \in {"best", "alternatives"} => best = GroupOf(Row_AkilliTelefon15)
        /\ pc = "alternatives" => alts = NoAlternatives

C3_Witness ==
    /\ pc = "alternatives" /\ df = ExampleDf /\ query = Q_telefon
    /\ Len(results) = 1 /\ best.ok

Keys(rows) == {Key(rows[i]) : i \in 1..Len(rows)}
Commissions(rows, key) ==
    {rows[i].Komisyon : i \in {j \in 1..Len(rows) : Key(rows[j]) = key /\ rows[j].Komisyon.ok}}

\* C4: the best match of a non-empty result set is one of its (category,
\* sub-category, product group) groups; its commission is the largest one of
\* the group's rows and no group has a row with a larger one.
C4_BestIsMax ==
    (pc \in {"best", "alternatives"} /\ results # <<>>) =>
        /\ best.ok
        /\ <<best.Kategori, best.Alt_Kategori, best.Urun_Grubu>> \in Keys(results)
        /\ LET own == Commissions(results, <<best.Kategori, best.Alt_Kategori, best.Urun_Grubu>>)
           IN  /\ best.Komisyon.ok <=> own # {}
               /\ best.Komisyon.ok => best.Komisyon \in own
               /\ \A c \in own : FloatLe(c, best.Komisyon)
        /\ \A k \in Keys(results) : \A c \in Commissions(results, k) :
              best.Komisyon.ok /\ FloatLe(c, best.Komisyon)

\* two rows of one group, 15 before 18: the best match reports 18
C4_Witness ==
    /\ pc = "best"
    /\ Len(results) >= 2
    /\ Key(results[1]) = Key(results[2])
    /\ results[1].Komisyon = Float(15, 0) /\ results[2].Komisyon = Float(18, 0)
    /\ best.Komisyon = Float(18, 0)

\* C5: the alternatives are one entry per group of the result set other than
\* the best match's, each with its group's largest commission, by commission
\* descending; the best match is not among them and none exceeds it.  (Stated
\* for result sets with fewer groups than any configured maximum.)
C5_Alternatives ==
    (pc = "alternatives" /\ best.ok) =>
        LET bestKey == <<best.Kategori, best.Alt_Kategori, best.Urun_Grubu>>
            others  == Keys(results) \ {bestKey}
            g       == alts.groups
        IN  /\ alts.error = ""
            /\ Len(g) = Cardinality(others)
            /\ {<<g[i].Kategori, g[i].Alt_Kategori, g[i].Urun_Grubu>> : i \in 1..Len(g)} = others
            /\ \A i \in 1..Len(g) :
                  /\ g[i].Komisyon = GroupMax(results, <<g[i].Kategori, g[i].Alt_Kategori, g[i].Urun_Grubu>>)
                  /\ g[i].Komisyon.ok => (best.Komisyon.ok /\ FloatLe(g[i].Komisyon, best.Komisyon))
            /\ \A i \in 1..(Len(g) - 1) : SortsFirst(g[i], g[i + 1])

-----------------------------------------------------------------------------
(* MultiMarketplaceCommissionService (app.py): reconciliation and load.     *)
(* A DataFrame is its set of column names and its rows; a row maps each     *)
(* column to a cell: a text, or NA for an empty CSV field (pd.read_csv).    *)
(* Series.astype(str) is the one of object columns, where NA becomes "nan". *)

Col_AnaKategori == "Ana Kategori"
Col_Kategori    == "Kategori"
Col_AltKategori == "Alt Kategori"
Col_UrunGrubu   == "{U_UML}r{u_uml}n Grubu"
Col_Komisyon    == "Komisyon_%_KDV_Dahil"

\* self.marketplaces[key]["columns_candidates"]
columns_candidates(key) ==
    CASE key = "trendyol" ->
           [category      |-> <<Col_AnaKategori, Col_Kategori>>,
            sub_category  |-> <<Col_Kategori, Col_AltKategori>>,
            product_group |-> <<Col_UrunGrubu, "Urun Grubu", "Urun_Grubu">>,
            commission    |-> <<Col_Komisyon, "komisyon">>]
      [] key = "hepsiburada" ->
           [category      |-> <<Col_AnaKategori, Col_Kategori>>,
            sub_category  |-> <<Col_Kategori, Col_AltKategori>>,
            product_group |-> <<Col_UrunGrubu, "Urun Grubu", "Urun_Grubu">>,
            commission    |-> <<Col_Komisyon, "Uygulanan_Komisyon_%_KDV_Dahil",
                                "komisyon">>]
      [] key = "n11" ->
           [category      |-> <<Col_Kategori, Col_AnaKategori>>,
            sub_category  |-> <<Col_AltKategori, Col_Kategori>>,
            product_group |-> <<Col_UrunGrubu, "Urun Grubu", "Urun_Grubu">>,
            commission    |-> <<Col_Komisyon, "komisyon">>]
      [] key = "amazon" ->
           [category      |-> <<Col_Kategori>>,
            sub_category  |-> <<Col_AltKategori>>,
            product_group |-> <<Col_UrunGrubu, Col_Kategori>>,
            commission    |-> <<Col_Komisyon, "Sat{i_dotless}{s_ced} Komisyonu (+KDV)">>]
      [] key = "ciceksepeti" ->
           [category      |-> <<Col_Kategori, Col_AnaKategori>>,
            sub_category  |-> <<Col_AltKategori, Col_Kategori>>,
            product_group |-> <<Col_UrunGrubu, Col_Kategori>>,
            commission    |-> <<Col_Komisyon, "Komisyon Oran{i_dotless}",
                                "Revize Komisyon Oran{i_dotless}">>]
      [] key = "pttavm" ->
           [category      |-> <<Col_Kategori, Col_AnaKategori>>,
            sub_category  |-> <<Col_AltKategori>>,
            product_group |-> <<Col_UrunGrubu, Col_AltKategori, Col_Kategori>>,
            commission    |-> <<Col_Komisyon, "Komisyon",
                                "Komisyon Oranlar{i_dotless}">>]

Cell(s) == [na |-> FALSE, text |-> s]
NA      == [na |-> TRUE, text |-> <<>>]

\* Series.astype(str)
AsTypeStr(c) == IF c.na THEN <<"n","a","n">> ELSE c.text
\* Series.astype(str).str.strip()
StrStrip(c) == Strip(AsTypeStr(c))

\* one representation per float: no trailing zero in the fraction
RECURSIVE Canon(_)
Canon(f) ==
    IF f.ok /\ f.scale > 0 /\ f.num % 10 = 0
    THEN Canon(Float(f.num \div 10, f.scale - 1))
    ELSE f

RECURSIVE TakeDigits(_)
\* \d+ at the head of s
TakeDigits(s) ==
    IF s # <<>> /\ Head(s) \in Digits THEN <<Head(s)>> \o TakeDigits(Tail(s))
    ELSE <<>>

RECURSIVE DropUntilDigit(_)
DropUntilDigit(s) ==
    IF s = <<>> \/ Head(s) \in Digits THEN s ELSE DropUntilDigit(Tail(s))

\* re.search(r"(\d+(?:\.\d+)?)", str(x).strip().replace(",", ".")): the first
\* digits, with a fraction when '.' and a digit follow; None is NoFloat
_extract_number(x) ==
    LET s     == Replace(Strip(x), ",", <<".">>)
        from  == DropUntilDigit(s)
        whole == TakeDigits(from)
        rest  == SubSeq(from, Len(whole) + 1, Len(from))
        frac  == IF rest # <<>> /\ Head(rest) = "." THEN TakeDigits(Tail(rest))
                 ELSE <<>>
    IN  IF from = <<>> THEN NoFloat
        ELSE Canon(Float(DigitsValue(whole \o frac), Len(frac)))

\* pd.to_numeric(cell, errors="coerce") of a CSV cell
to_numeric(c) ==
    IF c.na \/ ~(Range(c.text) \subseteq (Digits \cup {"."})) THEN NaN
    ELSE Canon(ToFloat(c.text))

\* ser.notna()
NotNa(vals) == SelectSeq(vals, LAMBDA v : v.ok)

\* the k-th smallest (k from 0) of a non-empty sequence of integers
OrderStat(ints, k) ==
    CHOOSE v \in Range(ints) :
        /\ Cardinality({i \in DOMAIN ints : ints[i] < v}) <= k
        /\ k < Cardinality({i \in DOMAIN ints : ints[i] <= v})

SeriesScale(vals) ==
    CHOOSE k \in {vals[i].scale : i \in DOMAIN vals} :
        \A i \in DOMAIN vals : vals[i].scale <= k

\* float(ser.quantile(0.95)) <= 1.0: the quantile interpolates linearly
\* between the order statistics around position 0.95 * (n - 1)
Quantile95AtMost1(vals) ==
    LET xs   == NotNa(vals)
        n    == Len(xs)
        S    == SeriesScale(xs)
        ints == [i \in 1..n |-> AtScale(xs[i], S)]
        pos  == 95 * (n - 1)
        lo   == pos \div 100
        fr   == pos % 100
        a    == OrderStat(ints, lo)
        b    == IF fr = 0 THEN a ELSE OrderStat(ints, lo + 1)
    IN  100 * a + fr * (b - a) <= 100 * Pow10(S)

\* _fix_scale on a series already numeric (NaN where coerced)
_fix_scale(vals) ==
    IF NotNa(vals) # <<>> /\ Quantile95AtMost1(vals)
    THEN [i \in DOMAIN vals |->
            IF vals[i].ok THEN Canon(Float(vals[i].num * 100, vals[i].scale))
            ELSE NaN]
    ELSE vals

\* None is "" here: every call site reads `_pick_first_present(...) or ""`
_pick_first_present(columns, candidates) ==
    LET hits == {i \in 1..Len(candidates) : candidates[i] \in columns}
    IN  IF hits = {} THEN ""
        ELSE candidates[CHOOSE i \in hits : \A j \in hits : i <= j]

\* out.drop_duplicates(): the first of equal rows stays
RECURSIVE DropDuplicates(_)
DropDuplicates(rows) ==
    IF rows = <<>> THEN <<>>
    ELSE LET init == DropDuplicates(SubSeq(rows, 1, Len(rows) - 1))
             last == rows[Len(rows)]
         IN  IF last \in Range(init) THEN init ELSE Append(init, last)

\* out[(Kategori != "") | (Alt Kategori != "") | (Ürün Grubu != "")]
KeepRow(r) == r.Kategori # <<>> \/ r.Alt_Kategori # <<>> \/ r.Urun_Grubu # <<>>

\* the sub-category column copied even when it is the category column
SubCategoryOf_Copy(row, cat_col, sub_col) ==
    IF sub_col # "" THEN StrStrip(row[sub_col]) ELSE <<>>

\* out["Alt Kategori"], lines 279-285
SubCategoryOf(row, cat_col, sub_col) ==
    IF cat_col # "" /\ sub_col # "" /\ cat_col # sub_col
    THEN StrStrip(row[sub_col]) ELSE <<>>

\* category and sub-category both demanded
MissingRequired_Both(cat_col, sub_col, grp_col) ==
    IF grp_col = "" THEN "ValueError: Urun Grubu"
    ELSE IF cat_col = "" \/ sub_col = "" THEN "ValueError: Kategori/Alt Kategori"
    ELSE ""

\* the two raise statements of lines 272-275; "" when neither fires
MissingRequired(cat_col, sub_col, grp_col) ==
    IF grp_col = "" THEN "ValueError: Urun Grubu"
    ELSE IF cat_col = "" /\ sub_col = "" THEN "ValueError: Kategori/Alt Kategori"
    ELSE ""

\* _normalize_to_flat4(df, candidates): the error raised, or the rows of out
_normalize_to_flat4(d, candidates) ==
    LET cat_col == _pick_first_present(d.columns, candidates.category)
        sub_col == _pick_first_present(d.columns, candidates.sub_category)
        grp_col == _pick_first_present(d.columns, candidates.product_group)
        com_col == _pick_first_present(d.columns, candidates.commission)
        n       == Len(d.rows)
        vals    == IF com_col # ""
                   THEN _fix_scale([i \in 1..n |->
                            _extract_number(AsTypeStr(d.rows[i][com_col]))])
                   ELSE [i \in 1..n |-> NaN]
        out     == [i \in 1..n |->
                      [Kategori     |-> StrStrip(d.rows[i][IF cat_col # "" THEN cat_col
                                                           ELSE sub_col]),
                       Alt_Kategori |-> SubCategoryOf(d.rows[i], cat_col, sub_col),
                       Urun_Grubu   |-> StrStrip(d.rows[i][grp_col]),
                       Komisyon     |-> vals[i]]]
        error   == MissingRequired(cat_col, sub_col, grp_col)
    IN  IF error # "" THEN [error |-> error, rows |-> <<>>]
        ELSE [error |-> "", rows |-> DropDuplicates(SelectSeq(out, KeepRow))]

\* a commission cell of a snapshot record: a float (NaN included) or the ""
\* that fillna("") wrote
NumVal(f) == [isstr |-> FALSE, f |-> f]
EmptyStr  == [isstr |-> TRUE, f |-> NaN]

wanted == {Col_Kategori, Col_AltKategori, Col_UrunGrubu, Col_Komisyon}

\* DataFrame.fillna("") on a text cell
FillNa(c) == IF c.na THEN <<>> ELSE c.text

\* _load_csv_normalized once the file is read: the error raised, or the
\* records of out.to_dict(orient="records")
_load_csv_normalized(d, key) ==
    IF wanted \subseteq d.columns
    THEN LET n   == Len(d.rows)
             com == _fix_scale([i \in 1..n |-> to_numeric(d.rows[i][Col_Komisyon])])
         IN  [error |-> "",
              rows  |-> [i \in 1..n |->
                           [Kategori     |-> FillNa(d.rows[i][Col_Kategori]),
                            Alt_Kategori |-> FillNa(d.rows[i][Col_AltKategori]),
                            Urun_Grubu   |-> FillNa(d.rows[i][Col_UrunGrubu]),
                            Komisyon     |-> NumVal(com[i])]]]
    ELSE LET out == _normalize_to_flat4(d, columns_candidates(key))
         IN  IF out.error # "" THEN out
             ELSE [error |-> "",
                   rows  |-> [i \in 1..Len(out.rows) |->
                                [Kategori     |-> out.rows[i].Kategori,
                                 Alt_Kategori |-> out.rows[i].Alt_Kategori,
                                 Urun_Grubu   |-> out.rows[i].Urun_Grubu,
                                 Komisyon     |-> IF out.rows[i].Komisyon.ok
                                                  THEN NumVal(out.rows[i].Komisyon)
                                                  ELSE EmptyStr]]]

-----------------------------------------------------------------------------
(* Scenario 4: one CSV file is read for one marketplace; it is reconciled   *)
(* (_normalize_to_flat4) and loaded (_load_csv_normalized).                 *)

MaxTableRows == 2

AllColumns ==
    {Col_AnaKategori, Col_Kategori, Col_AltKategori, Col_UrunGrubu, Col_Komisyon}

\* one line of a CSV file that has every column
SourceRow(ana, kat, alt, grp, com) ==
    (Col_AnaKategori :> ana) @@ (Col_Kategori :> kat) @@ (Col_AltKategori :> alt)
        @@ (Col_UrunGrubu :> grp) @@ (Col_Komisyon :> com)

Txt_TavaPadded == <<" ","T","a","v","a"," ">>
Txt_Pan        == <<"P","a","n">>
Txt_Blank      == <<" ">>

Src_Tava05    == SourceRow(Cell(Txt_Ev), Cell(Txt_Mutfak), Cell(Txt_Pan),
                           Cell(Txt_TavaPadded), Cell(<<"0",".","5">>))
Src_Tava20    == SourceRow(Cell(Txt_Ev), Cell(Txt_Mutfak), Cell(Txt_Pan),
                           Cell(Txt_Tava), Cell(<<"2","0">>))
Src_Missing   == SourceRow(NA, NA, NA, NA, NA)
Src_Blank150  == SourceRow(Cell(Txt_Blank), Cell(Txt_Blank), Cell(Txt_Blank),
                           Cell(Txt_Blank), Cell(<<"1","5","0">>))
Src_NoGroup18 == SourceRow(Cell(Txt_Ev), Cell(Txt_Mutfak), NA,
                           Cell(Txt_Blank), Cell(<<"1","8","%">>))

Src_Pan1234   == SourceRow(Cell(Txt_Ev), Cell(Txt_Mutfak), Cell(Txt_Pan),
                           Cell(Txt_Pan), Cell(<<"1",".","2","3","4",",","5","6">>))

SourceRows ==
    {Src_Tava05, Src_Tava20, Src_Missing, Src_Blank150, Src_NoGroup18, Src_Pan1234}

\* the file with the given header and lines
DataFrame(columns, lines) ==
    [columns |-> columns,
     rows    |-> [i \in 1..Len(lines) |-> [c \in columns |-> lines[i][c]]]]

Tables ==
    {DataFrame(cols, lines) :
        cols \in SUBSET AllColumns, lines \in SeqsUpTo(SourceRows, MaxTableRows)}

LoadKeys == {"trendyol", "amazon", "pttavm"}

NoOutcome == [error |-> "", rows |-> <<>>]

LoadInit ==
    /\ pc = "load_idle" /\ NormIdle /\ ParseIdle /\ SearchIdle
    /\ ApiIdle /\ ServiceIdle /\ ResolveIdle /\ UpdateIdle
    /\ table \in Tables /\ mp_key \in LoadKeys
    /\ flat4 = NoOutcome /\ loaded = NoOutcome

\* self._normalize_to_flat4(df, cands)
NormalizeToFlat4 ==
    /\ pc = "load_idle"
    /\ flat4' = _normalize_to_flat4(table, columns_candidates(mp_key))
    /\ pc' = "reconciled"
    /\ UNCHANGED <<table, mp_key, loaded, normVars, parseVars, searchVars,
                   apiVars, svcVars, resolveVars, updVars>>

\* self._load_csv_normalized(path, mp_key)
LoadCsvNormalized ==
    /\ pc \in {"load_idle", "reconciled"}
    /\ loaded' = _load_csv_normalized(table, mp_key)
    /\ pc' = "loaded"
    /\ UNCHANGED <<table, mp_key, flat4, normVars, parseVars, searchVars,
                   apiVars, svcVars, resolveVars, updVars>>

LoadNext == NormalizeToFlat4 \/ LoadCsvNormalized

SpecLoad == LoadInit /\ [][LoadNext]_vars

Present(candidates) == \E i \in 1..Len(candidates) : candidates[i] \in table.columns

\* C12: _normalize_to_flat4 raises its missing-column error exactly when no
\* product-group candidate is a column of the table, or neither a category nor
\* a sub-category candidate is; when it raises it produces no rows, and with
\* only one of category and sub-category resolved it does not raise.
C12_MissingRequired ==
    pc = "reconciled" =>
       LET cands == columns_candidates(mp_key)
       IN  /\ flat4.error # "" <=>
                \/ ~Present(cands.product_group)
                \/ (~Present(cands.category) /\ ~Present(cands.sub_category))
           /\ flat4.error # "" => flat4.rows = <<>>
           /\ (Present(cands.product_group)
                 /\ Present(cands.category) # Present(cands.sub_category))
                => flat4.error = ""

\* only the sub-category resolves (pttavm, "Alt Kategori"), rows come out
C12_OneResolves ==
    /\ pc = "reconciled" /\ mp_key = "pttavm"
    /\ table.columns = {Col_AltKategori, Col_UrunGrubu}
    /\ flat4.error = "" /\ flat4.rows # <<>>

\* a table with rows and no product-group column: the error, and no rows
C12_Witness ==
    /\ pc = "reconciled" /\ flat4.error # "" /\ table.rows # <<>>
    /\ Col_UrunGrubu \notin table.columns

\* the column a field resolves to: its first candidate among the columns
Resolved(candidates) == _pick_first_present(table.columns, candidates)

\* text t is the trimmed value of cell c (a missing cell reads "nan")
IsTrimmed(t, c) ==
    LET raw == IF c.na THEN <<"n","a","n">> ELSE c.text
    IN  /\ t = Strip(raw)
        /\ t # <<>> => ~IsSpace(t[1]) /\ ~IsSpace(t[Len(t)])

\* C13: when category and sub-category resolve to one column every reconciled
\* record has an empty sub_category and the trimmed value of that column as
\* category; when they resolve to two columns each field carries the trimmed
\* value of its own column.
C13_SameColumn ==
    (pc = "reconciled" /\ flat4.error = "") =>
       LET cat == Resolved(columns_candidates(mp_key).category)
           sub == Resolved(columns_candidates(mp_key).sub_category)
           grp == Resolved(columns_candidates(mp_key).product_group)
       IN  \A k \in 1..Len(flat4.rows) :
             \E i \in 1..Len(table.rows) :
                /\ IsTrimmed(flat4.rows[k].Urun_Grubu, table.rows[i][grp])
                /\ (cat # "" /\ cat = sub) =>
                      /\ flat4.rows[k].Alt_Kategori = <<>>
                      /\ IsTrimmed(flat4.rows[k].Kategori, table.rows[i][cat])
                /\ (cat # "" /\ sub # "" /\ cat # sub) =>
                      /\ IsTrimmed(flat4.rows[k].Kategori, table.rows[i][cat])
                      /\ IsTrimmed(flat4.rows[k].Alt_Kategori, table.rows[i][sub])

\* trendyol with "Kategori" and neither "Ana Kategori" nor "Alt Kategori":
\* both fields resolve to "Kategori"
C13_Witness ==
    /\ pc = "reconciled" /\ mp_key = "trendyol" /\ flat4.error = ""
    /\ table.columns = {Col_Kategori, Col_UrunGrubu, Col_Komisyon}
    /\ \E k \in 1..Len(flat4.rows) :
          /\ flat4.rows[k].Kategori = Txt_Mutfak
          /\ flat4.rows[k].Alt_Kategori = <<>>
          /\ flat4.rows[k].Urun_Grubu = Txt_Tava

\* two different columns: trendyol with "Ana Kategori" and "Kategori"
C13_TwoColumns ==
    /\ pc = "reconciled" /\ mp_key = "trendyol" /\ flat4.error = ""
    /\ {Col_AnaKategori, Col_Kategori} \subseteq table.columns
    /\ \E k \in 1..Len(flat4.rows) :
          flat4.rows[k].Kategori = Txt_Ev /\ flat4.rows[k].Alt_Kategori = Txt_Mutfak

\* C14: the records of a load hold no record whose category, sub-category and
\* product group are all empty, and no two records equal in all four fields,
\* on the canonical-header path and on the reconciling path, missing cells
\* included.
C14_NoEmptyNoDuplicate ==
    (pc = "loaded" /\ loaded.error = "") =>
       /\ \A k \in 1..Len(loaded.rows) :
             ~(/\ loaded.rows[k].Kategori = <<>>
               /\ loaded.rows[k].Alt_Kategori = <<>>
               /\ loaded.rows[k].Urun_Grubu = <<>>)
       /\ \A j, k \in 1..Len(loaded.rows) :
             loaded.rows[j] = loaded.rows[k] => j = k

\* C15: every record of a loaded snapshot has a non-empty product_group: a row
\* with an empty or missing product-group cell is dropped, also when its
\* category or sub-category is not empty.
C15_GroupNeverEmpty ==
    (pc = "loaded" /\ loaded.error = "") =>
       \A k \in 1..Len(loaded.rows) : loaded.rows[k].Urun_Grubu # <<>>

\* the numbers a table's commission cells read as
SourceValues ==
    {v \in {to_numeric(table.rows[i][c]) : i \in 1..Len(table.rows),
                                            c \in table.columns}
           \cup {_extract_number(AsTypeStr(table.rows[i][c])) :
                    i \in 1..Len(table.rows), c \in table.columns} : v.ok}

IsFraction(v) == v.num > 0 /\ FloatLe(v, Float(1, 0))

\* C16: every commission of a loaded snapshot is missing or a number in
\* [0, 100]; a source value v with 0 < v <= 1 is stored as 100 * v whatever
\* else its column holds, so a stored number is 100 * v for a source fraction
\* v, or a source value that is no fraction.
C16_PercentRange ==
    (pc = "loaded" /\ loaded.error = "") =>
       \A k \in 1..Len(loaded.rows) :
          LET c == loaded.rows[k].Komisyon
          IN  (~c.isstr /\ c.f.ok) =>
                 /\ c.f.num >= 0 /\ FloatLe(c.f, Float(100, 0))
                 /\ \E v \in SourceValues :
                       IF IsFraction(v)
                       THEN FloatEq(c.f, Float(100 * v.num, v.scale))
                       ELSE FloatEq(c.f, v)

-----------------------------------------------------------------------------
(* MultiMarketplaceCommissionService: the queries over one snapshot.        *)
(* "arrow" is U+2192, the separator of the sort path.                       *)

\* _normalize_turkish: twelve single-character str.replace, none of which
\* produces a character another one replaces
_normalize_turkish(text) == Translate(text)

\* q in s
Contains(q, s) ==
    \E i \in 1..(Len(s) - Len(q) + 1) : SubSeq(s, i, i + Len(q) - 1) = q

\* (priority, text) < (priority, text), the sort keys of the two queries
KeyLess(a, b) ==
    \/ a.prio < b.prio
    \/ a.prio = b.prio /\ StrLess(a.text, b.text)

RECURSIVE InsertByKey(_, _)
\* x goes after every item whose key is not greater: the sort is stable
InsertByKey(sorted, x) ==
    IF sorted = <<>> THEN <<x>>
    ELSE IF KeyLess(x, sorted[Len(sorted)])
         THEN Append(InsertByKey(SubSeq(sorted, 1, Len(sorted) - 1), x),
                     sorted[Len(sorted)])
         ELSE Append(sorted, x)

RECURSIVE StableSort(_)
\* list.sort / sorted with a key
StableSort(items) ==
    IF items = <<>> THEN <<>>
    ELSE InsertByKey(StableSort(SubSeq(items, 1, Len(items) - 1)), items[Len(items)])

Arrow == <<" ", "arrow", " ">>

\* every hit given the same priority: the path alone orders the result
Ranked_ByPathOnly(r, q) ==
    LET cat == _normalize_turkish(Lower(r.Kategori))
        sub == _normalize_turkish(Lower(r.Alt_Kategori))
        grp == _normalize_turkish(Lower(r.Urun_Grubu))
    IN  [prio |-> 0,
         text |-> Lower(r.Kategori \o Arrow \o r.Alt_Kategori \o Arrow \o r.Urun_Grubu),
         hit  |-> Contains(q, cat) \/ Contains(q, sub) \/ Contains(q, grp),
         item |-> r]

\* the (priority, path_for_sort, r) of a row, lines 379-393
Ranked(r, q) ==
    LET cat == _normalize_turkish(Lower(r.Kategori))
        sub == _normalize_turkish(Lower(r.Alt_Kategori))
        grp == _normalize_turkish(Lower(r.Urun_Grubu))
    IN  [prio |-> IF Contains(q, cat) THEN 0 ELSE IF Contains(q, sub) THEN 1 ELSE 2,
         text |-> Lower(r.Kategori \o Arrow \o r.Alt_Kategori \o Arrow \o r.Urun_Grubu),
         hit  |-> Contains(q, cat) \/ Contains(q, sub) \/ Contains(q, grp),
         item |-> r]

\* an empty query filtered like any other
Service_search_products_Filtered(rows, qry) ==
    LET q      == Strip(_normalize_turkish(Lower(qry)))
        ranked == SelectSeq([i \in 1..Len(rows) |-> Ranked(rows[i], q)],
                            LAMBDA x : x.hit /\ q # <<>>)
        sorted == StableSort(ranked)
    IN  [i \in 1..Len(sorted) |-> sorted[i].item]

\* MultiMarketplaceCommissionService.search_products on the rows of a marketplace
Service_search_products(rows, qry) ==
    LET q      == Strip(_normalize_turkish(Lower(qry)))
        ranked == SelectSeq([i \in 1..Len(rows) |-> Ranked(rows[i], q)],
                            LAMBDA x : x.hit)
        sorted == StableSort(ranked)
    IN  IF q = <<>> THEN rows
        ELSE [i \in 1..Len(sorted) |-> sorted[i].item]

\* an Optional[float]: None, or a float that may be NaN
PyNoneVal   == [none |-> TRUE, f |-> NaN]
PyFloatVal(f) == [none |-> FALSE, f |-> f]

DigitChar(d) == CHOOSE c \in Digits : DigitValue(c) = d

RECURSIVE IntDigits(_)
IntDigits(n) ==
    IF n < 10 THEN <<DigitChar(n)>> ELSE Append(IntDigits(n \div 10), DigitChar(n % 10))

\* the value in hundredths, rounded half to even as the format does
RoundCents(f) ==
    IF f.scale <= 2 THEN f.num * Pow10(2 - f.scale)
    ELSE LET unit == Pow10(f.scale - 2)
             q    == f.num \div unit
             r    == f.num % unit
         IN  IF 2 * r > unit \/ (2 * r = unit /\ q % 2 = 1) THEN q + 1 ELSE q

\* fmt(val): f"{float(val):.2f}%" with ',' for '.'
fmt(val) ==
    IF val.none THEN <<>>
    ELSE IF ~val.f.ok THEN <<"n","a","n","%">>
    ELSE LET cents == RoundCents(val.f)
         IN  IntDigits(cents \div 100)
               \o <<",", DigitChar((cents % 100) \div 10), DigitChar(cents % 10), "%">>

\* val of lines 444-451: "" is None, anything else goes through float()
CommissionOf(r) ==
    IF r.Komisyon.isstr THEN PyNoneVal ELSE PyFloatVal(r.Komisyon.f)

\* (val or 0.0) > (current or 0.0): None and 0.0 count as 0.0, and no
\* comparison with NaN is true
Exceeds(val, current) ==
    LET a == IF val.none THEN Float(0, 0) ELSE val.f
        b == IF current.none THEN Float(0, 0) ELSE current.f
    IN  a.ok /\ b.ok /\ ~FloatLe(a, b)

\* seen after the loop of lines 437-459 over rows, in insertion order
RECURSIVE Seen(_, _)
Seen(rows, norm_q) ==
    IF rows = <<>> THEN <<>>
    ELSE LET prev == Seen(SubSeq(rows, 1, Len(rows) - 1), norm_q)
             r    == rows[Len(rows)]
             pg   == Strip(r.Urun_Grubu)
             val  == CommissionOf(r)
             at   == {i \in 1..Len(prev) : prev[i].productGroup = pg}
             new  == [productGroup |-> pg, commissionPercent |-> val,
                      commissionText |-> fmt(val)]
         IN  IF pg = <<>> THEN prev
             ELSE IF norm_q # <<>> /\ ~Contains(norm_q, _normalize_turkish(Lower(pg)))
                  THEN prev
             ELSE IF at = {} THEN Append(prev, new)
             ELSE LET i == CHOOSE j \in at : TRUE
                  IN  IF Exceeds(val, prev[i].commissionPercent)
                      THEN [prev EXCEPT ![i] = new] ELSE prev

\* MultiMarketplaceCommissionService.list_pg_commissions on the rows of a marketplace
list_pg_commissions(rows, q) ==
    LET norm_q == IF q # <<>> THEN _normalize_turkish(Lower(q)) ELSE <<>>
        seen   == Seen(rows, norm_q)
        keyed  == [i \in 1..Len(seen) |->
                     [prio |-> 0, text |-> Lower(seen[i].productGroup), item |-> seen[i]]]
        sorted == StableSort(keyed)
    IN  [i \in 1..Len(sorted) |-> sorted[i].item]

-----------------------------------------------------------------------------
(* Scenario 5: the service has loaded one marketplace file at construction  *)
(* and the lookup its CSV; a query text is given to the lookup's            *)
(* search_products and to one of the service's queries.                     *)

Src_Kilif0  == SourceRow(Cell(Txt_Elektronik), Cell(Txt_Telefon), Cell(Txt_Telefon),
                         Cell(Txt_Kilif), Cell(<<"0">>))
Src_KilifNA == SourceRow(Cell(Txt_Elektronik), Cell(Txt_Telefon), Cell(Txt_Telefon),
                         Cell(Txt_Kilif), NA)
Src_Kilif5  == SourceRow(Cell(Txt_Elektronik), Cell(Txt_Telefon), Cell(Txt_Telefon),
                         Cell(Txt_Kilif), Cell(<<"5">>))

Txt_Istanbul == <<"I_DOT","s","t","a","n","b","u","l">>
Src_TavaIstanbul == SourceRow(Cell(Txt_Ev), Cell(Txt_Tava), Cell(Txt_Pan),
                              Cell(Txt_Istanbul), Cell(<<"1","0">>))

QuerySourceRows ==
    {Src_Tava05, Src_Tava20, Src_Kilif0, Src_KilifNA, Src_Kilif5, Src_NoGroup18,
     Src_TavaIstanbul}

\* the canonical header, and one that needs reconciling
QueryHeaders ==
    {wanted, {Col_AnaKategori, Col_Kategori, Col_UrunGrubu, Col_Komisyon}}

QueryTables ==
    {DataFrame(cols, lines) :
        cols \in QueryHeaders, lines \in SeqsUpTo(QuerySourceRows, MaxTableRows)}

Q_empty == <<>>
Q_tava  == <<"t","a","v","a">>
Q_nan   == <<"n","a","n">>

Q_istanbul == <<"i","s","t","a","n","b","u","l">>
Q_Idot     == <<"I_DOT">>

ApiQueries == {Q_empty, Q_blank, Q_tava, Q_Kilif, Q_nan, Q_istanbul, Q_Idot}

QueryInit ==
    /\ pc = "search_idle" /\ NormIdle /\ ParseIdle /\ ApiIdle /\ ServiceIdle /\ ResolveIdle /\ UpdateIdle
    /\ df = load_data(<<Row_AkilliTelefon15, Row_Kilif10, Row_Tava8>>)
    /\ query = <<>> /\ results = <<>> /\ tier = 0
    /\ best = NoBest /\ alts = NoAlternatives
    /\ table \in QueryTables /\ mp_key = "trendyol"
    /\ flat4 = NoOutcome
    /\ loaded = _load_csv_normalized(table, mp_key)

\* commission_service.search_products(marketplace_id, query)
ServiceSearchProducts(q) ==
    /\ api_op = ""
    /\ api_op' = "search_products"
    /\ api_q' = q
    /\ api_out' = Service_search_products(loaded.rows, q)
    /\ UNCHANGED <<pc, normVars, parseVars, searchVars, loadVars, svcVars, resolveVars, updVars>>

\* commission_service.list_pg_commissions(site_key, q)
ListPgCommissions(q) ==
    /\ api_op = ""
    /\ api_op' = "list_pg_commissions"
    /\ api_q' = q
    /\ api_out' = list_pg_commissions(loaded.rows, q)
    /\ UNCHANGED <<pc, normVars, parseVars, searchVars, loadVars, svcVars, resolveVars, updVars>>

RECURSIVE SortedStrings(_)
\* sorted(S) for a set of texts
SortedStrings(S) ==
    IF S = {} THEN <<>>
    ELSE LET m == CHOOSE x \in S : \A y \in S \ {x} : StrLess(x, y)
         IN  <<m>> \o SortedStrings(S \ {m})

\* MultiMarketplaceCommissionService.list_categories on the rows of a marketplace
list_categories(rows) ==
    SortedStrings({rows[i].Kategori : i \in 1..Len(rows)} \ {<<>>})

\* MultiMarketplaceCommissionService.find_commission on the rows of a
\* marketplace: the first record equal in the three texts decides; float("")
\* raises and gives None
find_commission(rows, category, sub, group) ==
    LET hits == {i \in 1..Len(rows) : /\ rows[i].Kategori = category
                                      /\ rows[i].Alt_Kategori = sub
                                      /\ rows[i].Urun_Grubu = group}
        first == CHOOSE i \in hits : \A j \in hits : i <= j
    IN  IF hits = {} \/ rows[first].Komisyon.isstr THEN PyNoneVal
        ELSE PyFloatVal(rows[first].Komisyon.f)

\* commission_service.find_commission(site_key, category, sub, group), asked
\* for the path of a record of the snapshot
FindCommission(i) ==
    /\ api_op = ""
    /\ i \in 1..Len(loaded.rows)
    /\ api_op' = "find_commission"
    /\ api_q' = <<loaded.rows[i].Kategori, loaded.rows[i].Alt_Kategori,
                  loaded.rows[i].Urun_Grubu>>
    /\ api_out' = <<find_commission(loaded.rows, loaded.rows[i].Kategori,
                                    loaded.rows[i].Alt_Kategori,
                                    loaded.rows[i].Urun_Grubu)>>
    /\ UNCHANGED <<pc, normVars, parseVars, searchVars, loadVars, svcVars, resolveVars, updVars>>

QueryNext ==
    \/ \E q \in ApiQueries : SearchProducts(q)
    \/ \E q \in ApiQueries : ServiceSearchProducts(q)
    \/ \E q \in ApiQueries : ListPgCommissions(q)
    \/ \E i \in 1..MaxTableRows : FindCommission(i)

SpecQuery == QueryInit /\ [][QueryNext]_vars

\* C19: for a query that is empty once normalised no tier is evaluated: the
\* lookup's search_products returns nothing, and the service's search_products
\* returns every record of the snapshot, unfiltered, in load order.
C19_EmptyQuery ==
    /\ (pc = "searched" /\ normalize_text(query) = <<>>) =>
          (results = <<>> /\ tier = 0)
    /\ (api_op = "search_products"
          /\ \A i \in 1..Len(api_q) : IsSpace(api_q[i])) =>
          api_out = loaded.rows

\* a blank query given to both, over a snapshot of two records
C19_Witness ==
    /\ pc = "searched" /\ query = Q_blank /\ results = <<>> /\ df # <<>>
    /\ api_op = "search_products" /\ api_q = Q_blank
    /\ Len(loaded.rows) = 2 /\ api_out = loaded.rows

\* the rows list_pg_commissions filters in, and their groups
PgOf(r) == Strip(r.Urun_Grubu)
MatchingRows ==
    {i \in 1..Len(loaded.rows) :
        /\ PgOf(loaded.rows[i]) # <<>>
        /\ api_q # <<>> =>
             Contains(Translate(Lower(api_q)), Translate(Lower(PgOf(loaded.rows[i]))))}
NumericOf(pg) ==
    {loaded.rows[i].Komisyon.f : i \in
        {j \in MatchingRows : /\ PgOf(loaded.rows[j]) = pg
                              /\ ~loaded.rows[j].Komisyon.isstr
                              /\ loaded.rows[j].Komisyon.f.ok}}

\* C20: list_pg_commissions returns one entry per distinct non-empty product
\* group matching the filter, sorted by lowercased name, and each entry's
\* commissionPercent is the maximum of the numeric commissions of the group's
\* rows whatever their order, null only when the group has no numeric one.
C20_MaxPerGroup ==
    api_op = "list_pg_commissions" =>
       /\ {api_out[k].productGroup : k \in 1..Len(api_out)}
             = {PgOf(loaded.rows[i]) : i \in MatchingRows}
       /\ \A j, k \in 1..Len(api_out) :
             api_out[j].productGroup = api_out[k].productGroup => j = k
       /\ \A j, k \in 1..Len(api_out) :
             j < k => ~StrLess(Lower(api_out[k].productGroup),
                               Lower(api_out[j].productGroup))
       /\ \A k \in 1..Len(api_out) :
             LET cp   == api_out[k].commissionPercent
                 nums == NumericOf(api_out[k].productGroup)
             IN  IF nums = {} THEN (cp.none \/ ~cp.f.ok)
                 ELSE /\ ~cp.none /\ cp.f.ok /\ cp.f \in nums
                      /\ \A n \in nums : FloatLe(n, cp.f)

-----------------------------------------------------------------------------
(* Scenario 6: the running service.  The constructor has refreshed with     *)
(* force=True; the files change on disk; every request runs                 *)
(* refresh_if_changed (_auto_refresh, before_request) and then one query,   *)
(* each in its own thread of the threaded server.  A list object lives in   *)
(* heap, _data maps a marketplace to the index of its list (0: no entry).   *)

MaxWrites == 1

\* the marketplaces of self._files the scenario follows, in dict order
KeyOrder == <<"trendyol">>
SvcKeys  == Range(KeyOrder)
Requests == {"r1", "r2"}

V_flat    == DataFrame(wanted, <<Src_Tava20, Src_Kilif5>>)
V_hepsi   == DataFrame({Col_AnaKategori, Col_Kategori, Col_UrunGrubu, Col_Komisyon},
                       <<Src_Tava05, Src_Kilif5>>)
V_nogroup == DataFrame({Col_Kategori, Col_Komisyon}, <<Src_Tava20>>)

FileVersions == {V_hepsi, V_nogroup}

NoFile == [exists |-> FALSE, mtime |-> 0, content |-> DataFrame({}, <<>>)]
File(m, v) == [exists |-> TRUE, mtime |-> m, content |-> v]

\* a list object: what it holds, the list the load that made it returns, the
\* marketplace it was made for, and whether _data ever referred to it
ListObject(key, target) ==
    [items |-> <<>>, target |-> target, key |-> key, published |-> FALSE]

\* the store done as soon as the list object exists
LoadReturned_Early(obj) == TRUE

\* self._load_csv_normalized(path, key) has returned: line 325 evaluates the
\* right-hand side before it stores into self._data
LoadReturned(obj) == obj.items = obj.target

NewRequest ==
    [pc |-> "exists", k |-> 1, m |-> 0, ref |-> 0,
     op |-> "", qkey |-> "", qref |-> 0, seen |-> <<>>, out |-> <<>>]

\* pd.read_csv and _load_csv_normalized on the file as it is now: the error
\* raised (no file, a missing required column) or the records
LoadOutcome(f, key) ==
    IF ~f[key].exists THEN [error |-> "FileNotFoundError", rows |-> <<>>]
    ELSE CHOOSE out \in {_load_csv_normalized(d, key) : d \in {f[key].content}} : TRUE

\* the forced refresh of __init__ makes a list for a marketplace unless the
\* load of its file fails
MadeAtStart(f, key) ==
    ~f[key].exists \/ LoadOutcome(f, key).error = ""

\* the lists made by the forced refresh, in the order of self.marketplaces
HeapAtStart(f) ==
    LET made == SelectSeq(KeyOrder, LAMBDA key : MadeAtStart(f, key))
    IN  [n \in 1..Len(made) |->
           CHOOSE obj \in {[items |-> rows, target |-> rows, key |-> made[n],
                             published |-> TRUE] :
                              rows \in {LoadOutcome(f, made[n]).rows}} : TRUE]

\* __init__: _init_file_registry, then refresh_if_changed(force=True) alone
ServiceInit ==
    /\ pc = "serving" /\ NormIdle /\ ParseIdle /\ SearchIdle /\ LoadIdle /\ ApiIdle
    /\ ResolveIdle /\ UpdateIdle
    /\ fs \in [SvcKeys -> {NoFile, File(1, V_flat)}]
    /\ heap = HeapAtStart(fs)
    /\ _data = [key \in SvcKeys |->
                  IF \E n \in 1..Len(heap) : heap[n].key = key
                  THEN CHOOSE n \in 1..Len(heap) : heap[n].key = key
                  ELSE 0]
    /\ _mtimes = [key \in SvcKeys |->
                    IF fs[key].exists /\ MadeAtStart(fs, key) THEN fs[key].mtime
                    ELSE -1]
    /\ load_failed = [key \in SvcKeys |->
                        IF fs[key].exists THEN LoadOutcome(fs, key).error ELSE ""]
    /\ req = [t \in Requests |-> NewRequest]

KeyOf(t) == KeyOrder[req[t].k]

\* the for loop of refresh_if_changed goes on, or the request reaches its route
NextKey(r) ==
    IF r.k < Len(KeyOrder) THEN [r EXCEPT !.pc = "exists", !.k = r.k + 1]
    ELSE [r EXCEPT !.pc = "q_get"]

\* if not path.exists()
Exists(t) ==
    /\ req[t].pc = "exists"
    /\ req' = [req EXCEPT ![t].pc = IF fs[KeyOf(t)].exists THEN "stat"
                                    ELSE "store_empty"]
    /\ UNCHANGED <<fs, _mtimes, _data, heap, load_failed>>

\* self._data[key] = []; continue
StoreEmpty(t) ==
    /\ req[t].pc = "store_empty"
    /\ heap' = Append(heap, [ListObject(KeyOf(t), <<>>) EXCEPT !.published = TRUE])
    /\ _data' = [_data EXCEPT ![KeyOf(t)] = Len(heap) + 1]
    /\ req' = [req EXCEPT ![t] = NextKey(req[t])]
    /\ UNCHANGED <<fs, _mtimes, load_failed>>

\* m = path.stat().st_mtime; outside the try: if the file is gone the error
\* leaves refresh_if_changed and _auto_refresh logs it
Stat(t) ==
    /\ req[t].pc = "stat"
    /\ req' = [req EXCEPT ![t] =
                 IF fs[KeyOf(t)].exists
                 THEN [req[t] EXCEPT !.pc = "decide", !.m = fs[KeyOf(t)].mtime]
                 ELSE [req[t] EXCEPT !.pc = "q_get"]]
    /\ UNCHANGED <<fs, _mtimes, _data, heap, load_failed>>

\* if force or m != self._mtimes.get(key, -1), with force = False
Decide(t) ==
    /\ req[t].pc = "decide"
    /\ req' = [req EXCEPT ![t] =
                 IF req[t].m # _mtimes[KeyOf(t)] THEN [req[t] EXCEPT !.pc = "read"]
                 ELSE NextKey(req[t])]
    /\ UNCHANGED <<fs, _mtimes, _data, heap, load_failed>>

\* self._load_csv_normalized(path, key) reads the file and starts its list;
\* an error is caught and logged
Read(t) ==
    /\ req[t].pc = "read"
    /\ \E out \in {LoadOutcome(fs, KeyOf(t))} :
         IF out.error # ""
         THEN /\ load_failed' = [load_failed EXCEPT ![KeyOf(t)] = out.error]
              /\ req' = [req EXCEPT ![t] = NextKey(req[t])]
              /\ UNCHANGED heap
         ELSE /\ heap' = Append(heap, ListObject(KeyOf(t), out.rows))
              /\ req' = [req EXCEPT ![t].pc = "build", ![t].ref = Len(heap) + 1]
              /\ UNCHANGED load_failed
    /\ UNCHANGED <<fs, _mtimes, _data>>

\* out.to_dict(orient="records") fills the list, record by record
Build(t) ==
    /\ req[t].pc = "build"
    /\ LET obj == heap[req[t].ref]
       IN  /\ Len(obj.items) < Len(obj.target)
           /\ heap' = [heap EXCEPT ![req[t].ref].items =
                          Append(obj.items, obj.target[Len(obj.items) + 1])]
    /\ UNCHANGED <<fs, _mtimes, _data, req, load_failed>>

\* self._data[key] = <the list returned>
Publish(t) ==
    /\ req[t].pc = "build"
    /\ LoadReturned(heap[req[t].ref])
    /\ _data' = [_data EXCEPT ![KeyOf(t)] = req[t].ref]
    /\ heap' = [heap EXCEPT ![req[t].ref].published = TRUE]
    /\ load_failed' = [load_failed EXCEPT ![KeyOf(t)] = ""]
    /\ req' = [req EXCEPT ![t].pc = "mtime"]
    /\ UNCHANGED <<fs, _mtimes>>

\* self._mtimes[key] = m; changed = True
StoreMtime(t) ==
    /\ req[t].pc = "mtime"
    /\ _mtimes' = [_mtimes EXCEPT ![KeyOf(t)] = req[t].m]
    /\ req' = [req EXCEPT ![t] = NextKey(req[t])]
    /\ UNCHANGED <<fs, _data, heap, load_failed>>

ServiceOps ==
    {"search_products", "list_pg_commissions", "list_categories", "find_commission"}

\* what a query returns over the rows it iterated
Answer(op, rows) ==
    CASE op = "search_products"     -> Service_search_products(rows, Q_tava)
      [] op = "list_pg_commissions" -> list_pg_commissions(rows, Q_tava)
      [] op = "list_categories"     -> list_categories(rows)
      [] op = "find_commission"     ->
            <<find_commission(rows, Txt_Ev, Txt_Mutfak, Txt_Tava)>>

\* rows = self._data.get(key, []): the one read of the shared reference
QueryGet(t, op, key) ==
    /\ req[t].pc = "q_get"
    /\ req' = [req EXCEPT ![t].pc = "q_iter", ![t].op = op, ![t].qkey = key,
                          ![t].qref = _data[key], ![t].seen = <<>>]
    /\ UNCHANGED <<fs, _mtimes, _data, heap, load_failed>>

\* for r in rows: one more record of the list object, or the end of the loop
\* and the answer
QueryIterate(t) ==
    /\ req[t].pc = "q_iter"
    /\ \E seen \in {req[t].seen} :
         req' = [req EXCEPT ![t] =
                   IF req[t].qref # 0 /\ Len(seen) < Len(heap[req[t].qref].items)
                   THEN [req[t] EXCEPT !.seen = Append(seen,
                                           heap[req[t].qref].items[Len(seen) + 1])]
                   ELSE [req[t] EXCEPT !.pc = "done",
                                       !.out = Answer(req[t].op, seen)]]
    /\ UNCHANGED <<fs, _mtimes, _data, heap, load_failed>>

\* the updater replaces a marketplace's CSV file
WriteFile(key, v) ==
    /\ fs[key].mtime <= MaxWrites
    /\ fs' = [fs EXCEPT ![key] = File(fs[key].mtime + 1, v)]
    /\ UNCHANGED <<_mtimes, _data, heap, req, load_failed>>

\* the file is deleted or moved aside; fs keeps what it was, for a restore
RemoveFile(key) ==
    /\ fs[key].exists
    /\ fs' = [fs EXCEPT ![key].exists = FALSE]
    /\ UNCHANGED <<_mtimes, _data, heap, req, load_failed>>

\* the file is put back as it was, with the st_mtime it had (mv, cp -p)
RestoreFile(key) ==
    /\ ~fs[key].exists /\ fs[key].mtime > 0
    /\ fs' = [fs EXCEPT ![key].exists = TRUE]
    /\ UNCHANGED <<_mtimes, _data, heap, req, load_failed>>

ServiceStep ==
    \/ \E t \in Requests :
          \/ Exists(t) \/ StoreEmpty(t) \/ Stat(t) \/ Decide(t) \/ Read(t)
          \/ Build(t) \/ Publish(t) \/ StoreMtime(t) \/ QueryIterate(t)
          \/ \E op \in ServiceOps, key \in SvcKeys : QueryGet(t, op, key)
    \/ \E key \in SvcKeys :
          \/ RemoveFile(key)
          \/ RestoreFile(key)
          \/ \E v \in FileVersions : WriteFile(key, v)

ServiceNext ==
    /\ ServiceStep
    /\ UNCHANGED <<pc, normVars, parseVars, searchVars, loadVars, apiVars, resolveVars, updVars>>

SpecService == ServiceInit /\ [][ServiceNext]_vars

\* the record lists a finished load of a marketplace's file can return, and
\* the empty list stored for a missing file
FinishedLoads ==
    [key \in SvcKeys |->
       {<<>>} \cup {_load_csv_normalized(v, key).rows :
                      v \in {w \in FileVersions \cup {V_flat} :
                                _load_csv_normalized(w, key).error = ""}}]

IsPrefixOf(s, full) ==
    Len(s) <= Len(full) /\ \A i \in 1..Len(s) : s[i] = full[i]

\* C17: under any interleaving of refreshes and queries, a query iterates
\* over one list object that is the complete result of one finished load of
\* its marketplace's file (or the empty list) and answers from exactly that
\* list, and a published list object never changes afterwards.
C17_OneSnapshot ==
    /\ [](\A t \in Requests :
            req[t].pc \in {"q_iter", "done"} =>
              IF req[t].qref = 0 THEN req[t].seen = <<>>
              ELSE \A obj \in {heap[req[t].qref]} :
                       /\ obj.key = req[t].qkey
                       /\ obj.items \in FinishedLoads[req[t].qkey]
                       /\ IsPrefixOf(req[t].seen, obj.items)
                       /\ req[t].pc = "done" =>
                            /\ req[t].seen = obj.items
                            /\ req[t].out = Answer(req[t].op, obj.items))
    /\ [][\A i \in 1..Len(heap) :
            heap[i].published => heap'[i].items = heap[i].items]_vars

\* a query half way through its list while another request has already
\* published a different list for the same marketplace
C17_Witness ==
    \E t, u \in Requests :
       /\ req[t].pc = "q_iter" /\ req[t].qref # 0
       /\ Len(req[t].seen) = 1 /\ Len(heap[req[t].qref].items) = 2
       /\ req[u].pc = "mtime" /\ req[u].ref # req[t].qref
       /\ _data[req[t].qkey] = req[u].ref
       /\ heap[req[u].ref].items # heap[req[t].qref].items

MissingColumnErrors ==
    {"ValueError: Urun Grubu", "ValueError: Kategori/Alt Kategori"}

\* C18: while the last load of a marketplace's current file has failed with
\* a missing required column, the service holds no records for that
\* marketplace.
C18_NoRecordsAfterFailure ==
    \A key \in SvcKeys :
       load_failed[key] \in MissingColumnErrors =>
          \/ _data[key] = 0
          \/ heap[_data[key]].items = <<>>

-----------------------------------------------------------------------------
(* Claims about the exact-path lookup (Scenario 5).                         *)

\* the numeric commissions of the records with the path asked for
TupleCommissions ==
    {loaded.rows[i].Komisyon.f : i \in
        {j \in 1..Len(loaded.rows) :
            /\ <<loaded.rows[j].Kategori, loaded.rows[j].Alt_Kategori,
                 loaded.rows[j].Urun_Grubu>> = api_q
            /\ ~loaded.rows[j].Komisyon.isstr
            /\ loaded.rows[j].Komisyon.f.ok}}

\* C21: when several records of the snapshot have the path asked for,
\* find_commission returns the maximum of their commissions.
C21_MaxOfTuple ==
    (api_op = "find_commission" /\ TupleCommissions # {}) =>
       /\ ~api_out[1].none /\ api_out[1].f.ok
       /\ \A f \in TupleCommissions : FloatLe(f, api_out[1].f)

-----------------------------------------------------------------------------
(* Scenario 7: find_column_by_aliases (utils.py) resolves one canonical     *)
(* field of a DataFrame from a list of aliases.                             *)

MaxColumns == 2
MaxAliases == 2

\* df_columns_normalized = {normalize_text(str(col)): str(col) for col in
\* df.columns}: the keys in the order of their first insertion
RECURSIVE NormalizedKeys(_)
NormalizedKeys(cols) ==
    IF cols = <<>> THEN <<>>
    ELSE LET init == NormalizedKeys(SubSeq(cols, 1, Len(cols) - 1))
             k    == normalize_text(cols[Len(cols)])
         IN  IF k \in Range(init) THEN init ELSE Append(init, k)

\* df_columns_normalized[k]: the last column with that key
NormalizedValue(cols, k) ==
    cols[CHOOSE i \in 1..Len(cols) :
            /\ normalize_text(cols[i]) = k
            /\ \A j \in 1..Len(cols) : normalize_text(cols[j]) = k => j <= i]

\* the loop body for one alias: the exact match, else the first key that
\* contains the alias or is contained in it
MatchAlias(cols, alias) ==
    LET keys    == NormalizedKeys(cols)
        an      == normalize_text(alias)
        partial == {i \in 1..Len(keys) : Contains(an, keys[i]) \/ Contains(keys[i], an)}
    IN  IF an \in Range(keys) THEN [ok |-> TRUE, col |-> NormalizedValue(cols, an)]
        ELSE IF partial # {}
        THEN [ok |-> TRUE,
              col |-> NormalizedValue(cols,
                         keys[CHOOSE i \in partial : \A j \in partial : i <= j])]
        ELSE NoColumn

\* find_column_by_aliases(df, aliases): the first alias that finds a column
RECURSIVE find_column_by_aliases(_, _)
find_column_by_aliases(cols, als) ==
    IF als = <<>> THEN NoColumn
    ELSE LET m == MatchAlias(cols, Head(als))
         IN  IF m.ok THEN m ELSE find_column_by_aliases(cols, Tail(als))

Col_Txt_Kategori    == <<"K","a","t","e","g","o","r","i">>
Col_Txt_AltKategori == <<"A","l","t"," ","K","a","t","e","g","o","r","i">>
Col_Txt_Komisyon    == <<"K","o","m","i","s","y","o","n">>
Col_Txt_Unnamed     == <<>>
ColumnNames == {Col_Txt_Kategori, Col_Txt_AltKategori, Col_Txt_Komisyon, Col_Txt_Unnamed}

Alias_kategori    == <<"k","a","t","e","g","o","r","i">>
Alias_altkategori == <<"a","l","t"," ","k","a","t","e","g","o","r","i">>
Alias_anakategori == <<"a","n","a"," ","k","a","t","e","g","o","r","i">>
Alias_komisyon    == <<"k","o","m","i","s","y","o","n">>
AliasNames == {Alias_kategori, Alias_altkategori, Alias_anakategori, Alias_komisyon}

ResolveInit ==
    /\ pc = "resolve_idle" /\ NormIdle /\ ParseIdle /\ SearchIdle
    /\ LoadIdle /\ ApiIdle /\ ServiceIdle /\ UpdateIdle
    /\ df_columns \in SeqsUpTo(ColumnNames, MaxColumns)
    /\ aliases \in SeqsUpTo(AliasNames, MaxAliases)
    /\ found = NoColumn

\* found_column = find_column_by_aliases(df, aliases)
FindColumnByAliases ==
    /\ pc = "resolve_idle"
    /\ pc' = "resolved"
    /\ found' = find_column_by_aliases(df_columns, aliases)
    /\ UNCHANGED <<df_columns, aliases, normVars, parseVars, searchVars, loadVars,
                   apiVars, svcVars, updVars>>

ResolveNext == FindColumnByAliases

SpecResolve == ResolveInit /\ [][ResolveNext]_vars

\* the aliases that equal a column name once both are normalised
ExactAliases ==
    {i \in 1..Len(aliases) :
        \E c \in Range(df_columns) : normalize_text(c) = normalize_text(aliases[i])}

\* C22: when an alias equals a column name after normalisation the column
\* resolved is the exact match of the first such alias; containment decides
\* only when no alias matches exactly, and never selects a column whose name
\* is empty.
C22_ExactBeforeContainment ==
    pc = "resolved" =>
       /\ ExactAliases # {} =>
            /\ found.ok
            /\ normalize_text(found.col) =
                  normalize_text(aliases[CHOOSE i \in ExactAliases :
                                            \A j \in ExactAliases : i <= j])
       /\ (ExactAliases = {} /\ found.ok) => found.col # <<>>

-----------------------------------------------------------------------------
(* Claims comparing the load pipeline with the commission parser            *)
(* (Scenario 4).                                                            *)

\* the cell of a CSV file as the value parse_commission_to_float would get
CellValue(c) == IF c.na THEN PyNaN ELSE Str(c.text)

\* the column of the file that holds the commissions ("" when there is none)
CommissionColumn ==
    _pick_first_present(table.columns, columns_candidates(mp_key).commission)

\* C23: every commission the reconciliation stores equals
\* parse_commission_to_float of its source cell (stated for the files of which
\* no line is dropped, so that stored record i comes from line i).
C23_StoredIsParsed ==
    (pc = "reconciled" /\ flat4.error = "" /\ CommissionColumn # ""
        /\ Len(flat4.rows) = Len(table.rows)) =>
       \A i \in 1..Len(table.rows) :
          LET stored == flat4.rows[i].Komisyon
              parsed_cell == parse_commission_to_float(
                                 CellValue(table.rows[i][CommissionColumn]))
          IN  /\ stored.ok = parsed_cell.ok
              /\ stored.ok => FloatEq(stored, parsed_cell)

-----------------------------------------------------------------------------
(* Claims about hot reload (Scenario 6).                                    *)

\* request t alone is refreshing: every other request has not started its
\* refresh or has finished it
RefreshesAlone(t) ==
    \A u \in Requests \ {t} :
       \/ req[u].pc \in {"q_get", "q_iter", "done"}
       \/ req[u].pc = "exists" /\ req[u].k = 1

\* C24: when a refresh that runs alone finds a marketplace's file present,
\* loadable and, the file still being the one it looked at, judges it
\* unchanged, the list served for the marketplace is
\* the reconciliation of the file's current content (whatever deletions,
\* restores and rewrites came before); in particular it is not the empty
\* list of a missing file.
C24_FreshAfterRefresh ==
    [][\A t \in Requests :
          (/\ req[t].pc = "decide" /\ req'[t].pc # "decide" /\ req'[t].pc # "read"
           /\ RefreshesAlone(t)
           /\ fs[KeyOf(t)].mtime = req[t].m
           /\ LoadOutcome(fs, KeyOf(t)).error = "") =>
             /\ _data'[KeyOf(t)] # 0
             /\ heap'[_data'[KeyOf(t)]].items = LoadOutcome(fs, KeyOf(t)).rows]_vars

-----------------------------------------------------------------------------
(* Claims about the service's search_products (Scenario 5).                 *)

\* lowercased, then the twelve letters replaced: how the search folds a text
FoldedText(s) == Translate(Lower(s))
FoldedQuery   == Strip(FoldedText(api_q))

\* the records of the snapshot in which the folded query occurs
SearchMatches ==
    {i \in 1..Len(loaded.rows) :
        \/ Contains(FoldedQuery, FoldedText(loaded.rows[i].Kategori))
        \/ Contains(FoldedQuery, FoldedText(loaded.rows[i].Alt_Kategori))
        \/ Contains(FoldedQuery, FoldedText(loaded.rows[i].Urun_Grubu))}

\* 0: the category matches; 1: the sub-category does and the category does
\* not; 2: only the product group does
PriorityOf(i) ==
    IF Contains(FoldedQuery, FoldedText(loaded.rows[i].Kategori)) THEN 0
    ELSE IF Contains(FoldedQuery, FoldedText(loaded.rows[i].Alt_Kategori)) THEN 1
    ELSE 2

PathOf(i) ==
    Lower(loaded.rows[i].Kategori \o Arrow \o loaded.rows[i].Alt_Kategori
             \o Arrow \o loaded.rows[i].Urun_Grubu)

\* C25: for a query that is not empty once folded, search_products returns
\* each record of the snapshot in which the folded query is a substring of
\* the folded category, sub-category or product group exactly once and no
\* other record, ordered by priority (category, then sub-category only, then
\* product group only) and within a priority by the lowercased path.
C25_MatchesRanked ==
    (api_op = "search_products" /\ FoldedQuery # <<>>) =>
       /\ Len(api_out) = Cardinality(SearchMatches)
       /\ \E idx \in [1..Len(api_out) -> SearchMatches] :
             /\ \A j, k \in 1..Len(api_out) : idx[j] = idx[k] => j = k
             /\ \A k \in 1..Len(api_out) : api_out[k] = loaded.rows[idx[k]]
             /\ \A j, k \in 1..Len(api_out) :
                   j < k =>
                      \/ PriorityOf(idx[j]) < PriorityOf(idx[k])
                      \/ /\ PriorityOf(idx[j]) = PriorityOf(idx[k])
                         /\ ~StrLess(PathOf(idx[k]), PathOf(idx[j]))

\* two records returned, the category match before the product-group match
\* although its path comes later in the alphabet; a third record not matched
C25_Witness ==
    /\ api_op = "search_products" /\ api_q = Q_tava
    /\ Len(api_out) = 2 /\ Len(loaded.rows) = 2
    /\ FoldedText(api_out[1].Kategori) = Q_tava
    /\ FoldedText(api_out[2].Urun_Grubu) = Q_tava
    /\ StrLess(Lower(api_out[2].Kategori), Lower(api_out[1].Kategori))

\* the folded lowercase base-Latin form of a text: the twelve letters
\* replaced by their base letters, then lowercased
BaseLatin(s) == Lower(Translate(s))

\* C26: whenever the base-Latin form of the query is a substring of the
\* base-Latin form of a field of a record, the search returns the record:
\* the service's search_products and list_pg_commissions; and the lookup's
\* search_products returns some record when a product group matches so.
C26_FoldedMatch ==
    /\ (api_op = "search_products" /\ Strip(BaseLatin(api_q)) # <<>>) =>
          \A i \in 1..Len(loaded.rows) :
             (\/ Contains(Strip(BaseLatin(api_q)), BaseLatin(loaded.rows[i].Kategori))
              \/ Contains(Strip(BaseLatin(api_q)), BaseLatin(loaded.rows[i].Alt_Kategori))
              \/ Contains(Strip(BaseLatin(api_q)), BaseLatin(loaded.rows[i].Urun_Grubu)))
                => loaded.rows[i] \in Range(api_out)
    /\ (api_op = "list_pg_commissions" /\ Strip(BaseLatin(api_q)) # <<>>) =>
          \A i \in 1..Len(loaded.rows) :
             (/\ Strip(loaded.rows[i].Urun_Grubu) # <<>>
              /\ Contains(Strip(BaseLatin(api_q)),
                          BaseLatin(Strip(loaded.rows[i].Urun_Grubu))))
                => \E k \in 1..Len(api_out) :
                      api_out[k].productGroup = Strip(loaded.rows[i].Urun_Grubu)
    /\ (pc = "searched" /\ Strip(BaseLatin(query)) # <<>>
          /\ \E i \in 1..Len(df) :
                Contains(Strip(BaseLatin(query)), BaseLatin(df[i].Urun_Grubu))) =>
          results # <<>>

(***************************************************************************)
(* Scenario 8: update/interface.py and update/utils.py.  BaseUpdate.run    *)
(* replaces a marketplace's published CSV by the output of an extraction   *)
(* script.  A file is a record (exists, lines); every state of `disk` is   *)
(* what a concurrent reader of the target path can observe.                *)
(***************************************************************************)
MaxCsvLines == 2

AbsentFile == [exists |-> FALSE, lines |-> <<>>]
CsvFile(lines) == [exists |-> TRUE, lines |-> lines]

\* The published CSV before the update, when there is one.
PreviousCsv == CsvFile(<<"old">>)

\* What the extraction script can leave at --out-csv: nothing, an empty
\* file, or a CSV of up to MaxCsvLines lines.
ScriptOutputs == {AbsentFile} \cup {CsvFile(l) : l \in SeqsUpTo({"new"}, MaxCsvLines)}

\* a size check that lets every file through
CsvEmpty_Never(f) == FALSE

\* tmp_csv.stat().st_size == 0
CsvEmpty(f) == f.lines = <<>>

UpdateInit ==
    /\ pc = "upd_start" /\ NormIdle /\ ParseIdle /\ SearchIdle
    /\ LoadIdle /\ ApiIdle /\ ServiceIdle /\ ResolveIdle
    /\ \E input_exists, is_pdf, backup, dry_run, keep_temp \in BOOLEAN,
          target0 \in {AbsentFile, PreviousCsv} :
          /\ upd = [input_exists |-> input_exists, is_pdf |-> is_pdf,
                    backup |-> backup, dry_run |-> dry_run, keep_temp |-> keep_temp,
                    target0 |-> target0, ran |-> FALSE, returncode |-> 0,
                    produced |-> AbsentFile, result |-> ""]
          /\ disk = [target |-> target0, tmp_csv |-> AbsentFile, tmp_excel |-> AbsentFile]
    /\ backup_dir = <<>>

UpdUnchanged == UNCHANGED <<normVars, parseVars, searchVars, loadVars, apiVars,
                            svcVars, resolveVars>>

Raise(what) ==
    /\ pc' = "upd_raised"
    /\ upd' = [upd EXCEPT !.result = what]

\* if not input_path.exists(): raise FileNotFoundError
CheckInput ==
    /\ pc = "upd_start"
    /\ IF ~upd.input_exists
       THEN Raise("FileNotFoundError")
       ELSE pc' = "upd_excel" /\ UNCHANGED upd
    /\ UNCHANGED <<disk, backup_dir>>
    /\ UpdUnchanged

\* An Excel input is used as it is; a PDF input is converted into a temp
\* Excel file unless dry_run, and pdf_to_excel may raise.  On dry_run the
\* command is only reported.
PrepareExcel(converted) ==
    /\ pc = "upd_excel"
    /\ IF upd.is_pdf /\ ~upd.dry_run
       THEN IF converted
            THEN /\ disk' = [disk EXCEPT !.tmp_excel = CsvFile(<<"xlsx">>)]
                 /\ pc' = "upd_script" /\ UNCHANGED upd
            ELSE /\ Raise("pdf_to_excel") /\ UNCHANGED disk
       ELSE /\ UNCHANGED disk
            /\ IF upd.dry_run
               THEN pc' = "upd_returned" /\ upd' = [upd EXCEPT !.result = "dry_run"]
               ELSE pc' = "upd_script" /\ UNCHANGED upd
    /\ UNCHANGED backup_dir
    /\ UpdUnchanged

\* run_subprocess(cmd): the script writes only its --out-csv, the temp CSV;
\* a non-zero exit code raises RuntimeError.
RunSubprocess(returncode, out) ==
    /\ pc = "upd_script"
    /\ disk' = [disk EXCEPT !.tmp_csv = out]
    /\ pc' = IF returncode # 0 THEN "upd_raised" ELSE "upd_check"
    /\ upd' = [upd EXCEPT !.ran = TRUE, !.returncode = returncode, !.produced = out,
                          !.result = IF returncode # 0 THEN "RuntimeError: exit code"
                                     ELSE @]
    /\ UNCHANGED backup_dir
    /\ UpdUnchanged

\* if not tmp_csv.exists(): raise; if tmp_csv.stat().st_size == 0: raise
CheckCsv ==
    /\ pc = "upd_check"
    /\ IF ~disk.tmp_csv.exists THEN Raise("RuntimeError: no CSV")
       ELSE IF CsvEmpty(disk.tmp_csv) THEN Raise("RuntimeError: empty CSV")
       ELSE pc' = "upd_backup" /\ UNCHANGED upd
    /\ UNCHANGED <<disk, backup_dir>>
    /\ UpdUnchanged

\* shutil.copy2(file_path, backup_path)
backup_file(d, dir) == Append(dir, d.target.lines)

\* if backup and target_csv.exists(): backup_path = backup_file(...)
Backup ==
    /\ pc = "upd_backup"
    /\ backup_dir' = IF upd.backup /\ disk.target.exists
                     THEN backup_file(disk, backup_dir) ELSE backup_dir
    /\ pc' = "upd_replace"
    /\ UNCHANGED <<upd, disk>>
    /\ UpdUnchanged

\* os.replace(src, dst): one step when it succeeds; an OSError (another
\* filesystem, a target held open) leads to the fallback.
OsReplace(replaced) ==
    /\ pc = "upd_replace"
    /\ IF replaced
       THEN /\ disk' = [disk EXCEPT !.target = disk.tmp_csv, !.tmp_csv = AbsentFile]
            /\ pc' = "upd_cleanup"
       ELSE /\ UNCHANGED disk
            /\ pc' = "upd_unlink"
    /\ UNCHANGED <<upd, backup_dir>>
    /\ UpdUnchanged

\* if dst.exists(): dst.unlink()
FallbackUnlink ==
    /\ pc = "upd_unlink"
    /\ disk' = IF disk.target.exists THEN [disk EXCEPT !.target = AbsentFile] ELSE disk
    /\ pc' = "upd_move"
    /\ UNCHANGED <<upd, backup_dir>>
    /\ UpdUnchanged

\* shutil.move(src, dst): os.rename when it works, else the destination is
\* opened for writing and the source is copied into it.
FallbackMove(renamed) ==
    /\ pc = "upd_move"
    /\ IF renamed
       THEN /\ disk' = [disk EXCEPT !.target = disk.tmp_csv, !.tmp_csv = AbsentFile]
            /\ pc' = "upd_cleanup"
       ELSE /\ disk' = [disk EXCEPT !.target = CsvFile(<<>>)]
            /\ pc' = "upd_copy"
    /\ UNCHANGED <<upd, backup_dir>>
    /\ UpdUnchanged

\* The copy writes the source's lines one after the other, then the source
\* is removed.
FallbackCopy ==
    /\ pc = "upd_copy"
    /\ LET n == Len(disk.target.lines)
       IN  IF n < Len(disk.tmp_csv.lines)
           THEN /\ disk' = [disk EXCEPT
                              !.target.lines = Append(@, disk.tmp_csv.lines[n + 1])]
                /\ pc' = "upd_copy"
           ELSE /\ disk' = [disk EXCEPT !.tmp_csv = AbsentFile]
                /\ pc' = "upd_cleanup"
    /\ UNCHANGED <<upd, backup_dir>>
    /\ UpdUnchanged

\* if created_temp_excel and not keep_temp: excel_path.unlink(); return {...}
CleanupAndReturn ==
    /\ pc = "upd_cleanup"
    /\ disk' = IF upd.is_pdf /\ ~upd.keep_temp
               THEN [disk EXCEPT !.tmp_excel = AbsentFile] ELSE disk
    /\ pc' = "upd_returned"
    /\ upd' = [upd EXCEPT !.result = "returned"]
    /\ UNCHANGED backup_dir
    /\ UpdUnchanged

UpdateNext ==
    \/ CheckInput
    \/ \E converted \in BOOLEAN : PrepareExcel(converted)
    \/ \E returncode \in {0, 1}, out \in ScriptOutputs : RunSubprocess(returncode, out)
    \/ CheckCsv
    \/ Backup
    \/ \E replaced \in BOOLEAN : OsReplace(replaced)
    \/ FallbackUnlink
    \/ \E renamed \in BOOLEAN : FallbackMove(renamed)
    \/ FallbackCopy
    \/ CleanupAndReturn

SpecUpdate == UpdateInit /\ [][UpdateNext]_vars

\* C27: during a run with dry_run=False a reader of the target path finds,
\* in every state, either the complete previous CSV (or no file when there
\* was none before the run) or the complete CSV the extraction produced:
\* never a missing file that existed before, never a partly written one.
C27_ReaderSeesWholeFile ==
    (pc # "upd_start" /\ ~upd.dry_run) =>
        \/ disk.target = upd.target0
        \/ upd.ran /\ disk.target = upd.produced


\* The failures C30 names: the input file is missing, the extraction exits
\* non-zero, or it leaves no CSV or an empty one.
FailedUpdate ==
    \/ pc # "upd_start" /\ ~upd.input_exists
    \/ upd.ran /\ (upd.returncode # 0 \/ ~upd.produced.exists \/ upd.produced.lines = <<>>)

RunOver == pc \in {"upd_raised", "upd_returned"}

\* C30: when the run fails for one of the named reasons it raises, the
\* target CSV is as it was before the run and no backup exists; a backup is
\* made only when requested with a target present, only after an extraction
\* that exited 0 with a non-empty CSV, and while the target still has its
\* previous content; and no target is replaced before that backup exists.
C30_FailureLeavesTarget ==
    /\ [](FailedUpdate =>
            /\ disk.target = upd.target0
            /\ backup_dir = <<>>
            /\ RunOver => (pc = "upd_raised" /\ upd.result # ""))
    /\ [](backup_dir # <<>> =>
            /\ upd.backup /\ upd.target0.exists
            /\ upd.ran /\ upd.returncode = 0
            /\ upd.produced.exists /\ upd.produced.lines # <<>>
            /\ backup_dir = <<upd.target0.lines>>)
    /\ []((disk.target # upd.target0 /\ upd.backup /\ upd.target0.exists) =>
            backup_dir = <<upd.target0.lines>>)
    /\ [][backup_dir' # backup_dir =>
            (disk.target = upd.target0 /\ disk'.target = disk.target)]_vars

\* A run asked to back up an existing target raised on an empty CSV.
C30_Witness ==
    /\ pc = "upd_raised" /\ upd.result = "RuntimeError: empty CSV"
    /\ upd.backup /\ upd.target0.exists
    /\ disk.target = PreviousCsv /\ backup_dir = <<>>


\* ratio(g, q) >= ratio(h, q), the ratios being pairs <<numerator, denominator>>
AtLeastAsClose(g, h, q) ==
    Ratio(g, q)[1] * Ratio(h, q)[2] >= Ratio(h, q)[1] * Ratio(g, q)[2]

\* the product groups of the file whose ratio to the query reaches the threshold
CloseGroups(d, q) ==
    {g \in {d[i].Urun_Grubu : i \in 1..Len(d)} :
        100 * Ratio(g, q)[1] >= MIN_SIMILARITY_THRESHOLD * Ratio(g, q)[2]}

\* C28: a result of the fuzzy tier holds exactly the records whose product
\* group is one of at most MAX_FUZZY_RESULTS product groups with a ratio of
\* at least MIN_SIMILARITY_THRESHOLD to the query, and the records come in
\* the order of decreasing ratio of their product group to the query.
C28_FuzzyBestFirst ==
    (pc = "searched" /\ tier = 4) =>
        /\ \E G \in SUBSET CloseGroups(df, query) :
              /\ Cardinality(G) <= MAX_FUZZY_RESULTS
              /\ results = SelectSeq(df, LAMBDA r : r.Urun_Grubu \in G)
        /\ \A i, j \in 1..Len(results) :
              i < j => AtLeastAsClose(results[i].Urun_Grubu, results[j].Urun_Grubu, query)


\* C29: the broad tier never answers: no search returns from tier 5, and a
\* search that went through tier 5 found the substring match sets over the
\* product group and over category / sub-category empty, hence their union,
\* the broad match set, empty too, and returned the empty result.
C29_BroadNeverContributes ==
    (pc # "search_idle") =>
        /\ tier # 5
        /\ tier = 6 =>
             LET qn == normalize_text(normalize_text(query))
             IN  /\ PartialSelectSeq(df, qn) = <<>>
                 /\ CategorySelectSeq(df, qn) = <<>>
                 /\ BroadSelectSeq(df, qn) = <<>>
                 /\ results = <<>>

\* A search over a file with records went through every tier and found nothing.
C29_Witness ==
    /\ pc = "searched" /\ tier = 6 /\ query = Q_xyz
    /\ Len(df) = MaxRows /\ results = <<>>

====
